---- MODULE Spec2Model ----
(***************************************************************************)
(* Model of the RF Online MSH / ANI add-on (cbb_rf_online_addon).          *)
(*                                                                         *)
(* Conventions                                                             *)
(*  - Python lists are TLA+ sequences.  The VALUES stored in them (vertex  *)
(*    indices, bone indices, split numbers) stay 0-based as in the code;   *)
(*    element i of a Python list l is l[i+1] here.                         *)
(*  - A float weight w is the integer w * 10^6 (fixed point, unit 1e-6),   *)
(*    so 1.0 is ONE, WEIGHT_TOLERANCE (1e-05) is 10 and 1e-6 is 1.         *)
(*  - A name built by f"{a}_{n}" is Append(a, n): the name "Foo" is        *)
(*    <<"Foo">>, "Foo_1" is <<"Foo", 1>>, "Foo_1_2" is <<"Foo", 1, 2>>.    *)
(*  - Positions, UVs and normals are opaque values compared by equality,   *)
(*    which is all the exporter's dictionary key does with them.           *)
(***************************************************************************)
EXTENDS Integers, Sequences, FiniteSets, TLC

VARIABLES
    op,                       \* which operator this behaviour runs: "export" or "import"
    pc,                       \* position inside the operator
    obj,                      \* export input: the Blender object handed to __export_mesh
    mesh_export_format,       \* export input: self.msh_format_option
    material_polygon_groups,  \* export: dict mat_idx -> polys, as a list in insertion order
    group_pos,                \* export: how many material groups have been fully processed
    grp,                      \* export: the group_exporter_* lists of the current group
    split_number,             \* export: loop variable of the splitting loop
    exported,                 \* export: the object_* accumulators of __export_mesh, one record per sub-object
    msh_file,                 \* import input: the decoded content of the .msh file
    object_num,               \* import: loop variable of `for object_num in range(object_amount)`
    created_objects,          \* import: what the importer built for each object read so far
    is_mesh08,                \* import: the variant selected from the first bytes of the file
    count_offset,             \* import: stream position at which object_amount is read
    object_amount,            \* import: the object count read from the file
    msh_written,              \* re-export of imported objects: the object headers written
    target_armature,          \* import: the name of the armature the meshes are bound to
    ani_scene,                \* ANI input: the scene, the operator options and the selected files
    file_num,                 \* ANI import: position in `for file in self.files`
    attempted,                \* ANI import: indices of the files whose processing was started
    actions,                  \* bpy.data.actions: the actions created by ANI import
    action_num,               \* ANI export: position in `for action, objects in actions_to_export.items()`
    export_lists,             \* ANI export: the export_* lists of export_action
    before_export,            \* ANI export: the scene as the last call of export_action found it
    disk                      \* MSH and ANI export: the files at the export paths

export_vars == <<obj, mesh_export_format, material_polygon_groups, group_pos,
                 grp, split_number, exported>>

import_vars == <<msh_file, object_num, created_objects, is_mesh08, count_offset,
                 object_amount, msh_written, target_armature>>

ani_vars == <<ani_scene, file_num, attempted, actions, action_num, export_lists,
              before_export, disk>>

vars == <<op, pc, export_vars, import_vars, ani_vars>>

(***************************************************************************)
(* Program constants                                                       *)
(***************************************************************************)
ONE == 1000000
WEIGHT_TOLERANCE == 10
DEGENERATE_SUM == 1
MAX_INDICES == 65535
TRIS_PER_SPLIT == 21845
INVALID_NAME == <<"">>
NO_BONE == -1

(***************************************************************************)
(* Bounds of the model                                                     *)
(***************************************************************************)
MaxChunks == 2
MaxSmallPolys == 2
MaxImportVertices == 1
MaxBaseVertices == 3
MaxLegacyTriangles == 2

(***************************************************************************)
(* Generic helpers                                                         *)
(***************************************************************************)
Min(a, b) == IF a < b THEN a ELSE b

\* math.ceil(a / float(b)) for non-negative a, positive b
CeilDiv(a, b) == (a + b - 1) \div b

\* l[:n]
Take(l, n) == SubSeq(l, 1, Min(n, Len(l)))

\* [x] * n   (empty when n <= 0)
Repeat(x, n) == [i \in 1..n |-> x]

Range(l) == {l[i] : i \in 1..Len(l)}

RECURSIVE SumSeq(_)
SumSeq(l) == IF l = <<>> THEN 0 ELSE l[1] + SumSeq(Tail(l))

\* a function with domain 1..n as the same sequence (the identity; it only makes
\* TLC hold the value as a tuple, which it indexes in constant time)
AsList(f) == SubSeq(f, 1, Len(f))

\* f"{name}_{n}"
NameWithSuffix(name, n) == Append(name, n)

\* the ASCII codes of "MESH08"
MAGIC == <<77, 69, 83, 72, 48, 56>>

\* struct "<H": the two bytes of n, and the value of the two bytes at `offset`
UShortBytes(n) == <<n % 256, n \div 256>>

(***************************************************************************)
(* MSH export: per-vertex bone weights (msh.py 1232-1262)                  *)
(***************************************************************************)
\* position of bone_name in the unique bone list (0-based), as kept in
\* group_unique_bones_used_indices
BoneIndexOf(bones_list, bone_name) ==
    (CHOOSE i \in 1..Len(bones_list) : bones_list[i] = bone_name) - 1

\* `for group in groups` of one mesh vertex: acc = [bones_list, pairs]
RECURSIVE CollectBoneWeightPairs(_, _, _, _)
CollectBoneWeightPairs(groups, k, group_index_to_bone_name, acc) ==
    IF k > Len(groups) THEN acc
    ELSE LET g == groups[k] IN
         IF g.group \notin DOMAIN group_index_to_bone_name
            THEN CollectBoneWeightPairs(groups, k + 1, group_index_to_bone_name, acc)
            ELSE LET bone_name == group_index_to_bone_name[g.group]
                     list1 == IF bone_name \in Range(acc.bones_list)
                                 THEN acc.bones_list
                                 ELSE Append(acc.bones_list, bone_name)
                     bone_index == BoneIndexOf(list1, bone_name)
                 IN CollectBoneWeightPairs(groups, k + 1, group_index_to_bone_name,
                        [bones_list |-> list1,
                         pairs |-> Append(acc.pairs, <<bone_index, g.weight>>)])

\* list.sort(key=weight, reverse=True) is stable: a pair goes after every pair
\* already placed whose weight is >= its own
RECURSIVE InsertByWeightDesc(_, _)
InsertByWeightDesc(sorted, p) ==
    IF sorted = <<>> THEN <<p>>
    ELSE IF sorted[1][2] >= p[2]
            THEN <<sorted[1]>> \o InsertByWeightDesc(Tail(sorted), p)
            ELSE <<p>> \o sorted

RECURSIVE SortByWeightDesc(_, _, _)
SortByWeightDesc(pairs, k, sorted) ==
    IF k > Len(pairs) THEN sorted
    ELSE SortByWeightDesc(pairs, k + 1, InsertByWeightDesc(sorted, pairs[k]))

\* lines 1255-1258: the three stored weights
ThreeWeights(weights, bone_indices) ==
    IF Len(weights) > 3
       THEN Take(weights, 3)
       ELSE weights \o Repeat(0, 3 - Len(bone_indices))

\* line 1260: the four stored bone indices
FourBoneIndices(bone_indices) ==
    bone_indices \o Repeat(NO_BONE, 4 - Len(bone_indices))

\* lines 1249-1262: the (weights, bone_indices) tuple appended to
\* group_exporter_weights; <<weights, bone_indices>> here
WeightSlots(bone_weight_pairs) ==
    LET limited == Take(SortByWeightDesc(bone_weight_pairs, 1, <<>>), 4)
        bone_indices == [i \in 1..Len(limited) |-> limited[i][1]]
        weights == [i \in 1..Len(limited) |-> limited[i][2]]
    IN <<ThreeWeights(weights, bone_indices), FourBoneIndices(bone_indices)>>

(***************************************************************************)
(* MSH export: per-corner deduplication and triangulation of one material  *)
(* group (msh.py 1196-1277)                                                *)
(***************************************************************************)
EmptyGroup ==
    [map |-> <<>>, vertices |-> <<>>, normals |-> <<>>, uvs |-> <<>>,
     weights |-> <<>>, bones_list |-> <<>>]

\* vertex_key = (loop.vertex_index, uv, normal)
\* a key that ignores the UV of the corner
KeyWithoutUV(loop) == <<loop.vertex_index, loop.normal>>

VertexKey(loop) == <<loop.vertex_index, loop.uv, loop.normal>>

\* body of `for loop_index in poly.loop_indices`: st is the group state, the
\* result carries the index appended to poly_indices
AddLoop(o, st, loop) ==
    LET vertex_key == VertexKey(loop) IN
    IF vertex_key \in DOMAIN st.map
       THEN [st |-> st, index |-> st.map[vertex_key]]
       ELSE LET new_index == Len(st.vertices)
                mesh_vertex == o.vertices[loop.vertex_index + 1]
                collected == CollectBoneWeightPairs(mesh_vertex.groups, 1, o.vertex_groups,
                                 [bones_list |-> st.bones_list, pairs |-> <<>>])
            IN [st |-> [map |-> st.map @@ (vertex_key :> new_index),
                        vertices |-> Append(st.vertices, mesh_vertex.co),
                        normals |-> Append(st.normals, loop.normal),
                        uvs |-> Append(st.uvs, loop.uv),
                        weights |-> Append(st.weights, WeightSlots(collected.pairs)),
                        bones_list |-> collected.bones_list],
                index |-> new_index]

\* the loop over one polygon's corners: acc = [st, poly_indices]
RECURSIVE AddLoops(_, _, _, _)
AddLoops(o, loops, k, acc) ==
    IF k > Len(loops) THEN acc
    ELSE LET r == AddLoop(o, acc.st, loops[k])
         IN AddLoops(o, loops, k + 1,
                [st |-> r.st, poly_indices |-> Append(acc.poly_indices, r.index)])

\* lines 1267-1277: "Triangulate directly"
Triangulate(poly_indices) ==
    LET amount_of_polys == Len(poly_indices) IN
    IF amount_of_polys = 3 THEN <<poly_indices>>
    ELSE IF amount_of_polys = 4
         THEN << <<poly_indices[1], poly_indices[2], poly_indices[3]>>,
                 <<poly_indices[1], poly_indices[3], poly_indices[4]>> >>
         ELSE [k \in 1..(amount_of_polys - 2) |->
                  <<poly_indices[1], poly_indices[k + 1], poly_indices[k + 2]>>]

\* `for poly in group_polys`, polygons lo..hi in order: the result is the group
\* state after them and the triangles they appended to group_exporter_polygons.
\* The range is processed left half first, then right half from the state the
\* left half produced: the same left-to-right loop, split only so that the
\* evaluation depth stays logarithmic in the polygon count.  (`polygons` is
\* written first so that the left half is evaluated before the right one.)
RECURSIVE AddPolys(_, _, _, _, _)
AddPolys(o, polys, lo, hi, st) ==
    IF lo > hi THEN [st |-> st, polygons |-> <<>>]
    ELSE IF lo = hi
         THEN LET r == AddLoops(o, polys[lo].loops, 1, [st |-> st, poly_indices |-> <<>>])
              IN [st |-> r.st, polygons |-> Triangulate(r.poly_indices)]
         ELSE LET mid == (lo + hi) \div 2
                  left == AddPolys(o, polys, lo, mid, st)
                  right == AddPolys(o, polys, mid + 1, hi, left.st)
              IN [polygons |-> left.polygons \o right.polygons, st |-> right.st]

\* the group_exporter_* lists of one material group
BuildGroup(o, group_polys) ==
    LET r == AddPolys(o, group_polys, 1, Len(group_polys), EmptyGroup)
    IN [vertices |-> r.st.vertices, normals |-> r.st.normals, uvs |-> r.st.uvs,
        weights |-> r.st.weights, polygons |-> r.polygons,
        bones_list |-> r.st.bones_list, map |-> r.st.map]

(***************************************************************************)
(* MSH export: grouping polygons by material (msh.py 1147-1158)            *)
(***************************************************************************)
\* mat_idx = poly.material_index if poly.material_index < len(material_slots) else 0
MatIdx(o, poly) ==
    IF poly.material_index < o.material_slots THEN poly.material_index ELSE 0

\* index of the first polygon whose mat_idx is m
FirstPolyOf(o, m) ==
    CHOOSE i \in 1..Len(o.polygons) :
        /\ MatIdx(o, o.polygons[i]) = m
        /\ \A j \in 1..(i - 1) : MatIdx(o, o.polygons[j]) # m

\* the dict's keys in insertion order, i.e. by first appearance
RECURSIVE KeysByFirstAppearance(_, _)
KeysByFirstAppearance(o, keys) ==
    IF keys = {} THEN <<>>
    ELSE LET m == CHOOSE x \in keys :
                      \A y \in keys : FirstPolyOf(o, x) <= FirstPolyOf(o, y)
         IN <<m>> \o KeysByFirstAppearance(o, keys \ {m})

\* material_polygon_groups as the list of its (mat_idx, polys) items: every
\* polygon is appended to the list of its mat_idx, so each list keeps mesh order
GroupByMaterial(o) ==
    LET keys == KeysByFirstAppearance(o, {MatIdx(o, o.polygons[i]) : i \in 1..Len(o.polygons)})
    IN [k \in 1..Len(keys) |->
           [mat_idx |-> keys[k],
            polys |-> SelectSeq(o.polygons, LAMBDA p : MatIdx(o, p) = keys[k])]]

(***************************************************************************)
(* MSH export: __add_object_data (msh.py 958-1060)                         *)
(***************************************************************************)
\* MESH08 vertex tuple (lines 986-1000)
Mesh08VertexData(position, normal, uv, exporting_weights, vertex_index) ==
    [position |-> position,
     weight_values |-> IF exporting_weights # <<>>
                          THEN exporting_weights[vertex_index + 1][1]
                          ELSE <<0, 0, 0>>,
     unique_bone_indices |-> IF exporting_weights # <<>>
                                THEN exporting_weights[vertex_index + 1][2]
                                ELSE <<0, 0, 0, 0>>,
     normal |-> normal, uv |-> uv, binormal |-> <<0, 0, 0>>]

\* lines 1027-1032: the four weights written for a legacy vertex
LegacyFourWeights(w) ==
    LET weight_sum == w[1] + w[2] + w[3] IN
    IF weight_sum < ONE - WEIGHT_TOLERANCE
       THEN <<w[1], w[2], w[3], ONE - weight_sum>>
       ELSE <<w[1], w[2], w[3], 0>>

\* lines 1017-1033: the weight_data tuple of a legacy vertex
LegacyWeightData(exporter_weight, vertex_index) ==
    [vertex_index |-> vertex_index,
     valid_bone_amount |-> Cardinality({i \in 1..Len(exporter_weight[2]) :
                                           exporter_weight[2][i] # NO_BONE}),
     bone_indices |-> exporter_weight[2],
     weights |-> LegacyFourWeights(exporter_weight[1])]

\* lines 1036-1049: the face_data tuple of a legacy triangle
LegacyFaceData(tri, exporting_normals, exporting_uvs) ==
    [tri |-> tri,
     normals |-> <<exporting_normals[tri[1] + 1], exporting_normals[tri[2] + 1],
                   exporting_normals[tri[3] + 1]>>,
     uvs |-> << <<exporting_uvs[tri[1] + 1], 0>>, <<exporting_uvs[tri[2] + 1], 0>>,
                <<exporting_uvs[tri[3] + 1], 0>> >>,
     unknown |-> 0]

\* groups of exactly 4 names only: the names after the last full group are left out
FullBoneGroupsOnly(exporting_unique_bones_list) ==
    [g \in 1..(Len(exporting_unique_bones_list) \div 4) |->
        LET bone_group == SubSeq(exporting_unique_bones_list, 4 * (g - 1) + 1, 4 * g)
        IN [bone_amount |-> 4, bone_names |-> bone_group]]

\* lines 1007-1009: the unique bone list in groups of up to 4 names
BoneGroups(exporting_unique_bones_list) ==
    [g \in 1..CeilDiv(Len(exporting_unique_bones_list), 4) |->
        LET bone_group == SubSeq(exporting_unique_bones_list, 4 * (g - 1) + 1,
                                 Min(4 * g, Len(exporting_unique_bones_list)))
        IN [bone_amount |-> Len(bone_group), bone_names |-> bone_group]]

\* the entry __add_object_data appends to every object_* accumulator
ObjectData(fmt, name, parent_name, exporting_vertices, exporting_normals, exporting_uvs, exporting_polygons, exporting_weights, exporting_unique_bones_list) ==
    [name |-> name,
     parent_name |-> parent_name,
     vertex_amount |-> Len(exporting_vertices),
     face_amount |-> Len(exporting_polygons),
     weight_amount |-> Len(exporting_vertices),
     unique_bones_list |-> exporting_unique_bones_list,
     vertex_data |->
        IF fmt = "MESH08"
           THEN AsList([i \in 1..Len(exporting_vertices) |->
                    Mesh08VertexData(exporting_vertices[i], exporting_normals[i],
                                     exporting_uvs[i], exporting_weights, i - 1)])
           ELSE AsList([i \in 1..Len(exporting_vertices) |->
                    [position |-> exporting_vertices[i], unknown |-> ONE,
                     normal |-> exporting_normals[i]]]),
     face_data |->
        IF fmt = "MESH08"
           THEN AsList([i \in 1..(3 * Len(exporting_polygons)) |->
                    exporting_polygons[((i - 1) \div 3) + 1][((i - 1) % 3) + 1]])
           ELSE AsList([i \in 1..Len(exporting_polygons) |->
                    LegacyFaceData(exporting_polygons[i], exporting_normals, exporting_uvs)]),
     weight_data |->
        IF fmt = "MESH08"
           THEN BoneGroups(exporting_unique_bones_list)
           ELSE AsList([i \in 1..Len(exporting_vertices) |->
                    LegacyWeightData(exporting_weights[i], i - 1)])]

(***************************************************************************)
(* MSH export: splitting one material group (msh.py 1309-1345)             *)
(***************************************************************************)
\* maximum_split_amount = math.ceil(polygon_indices_amount / 65535.0)
\* a split amount that rounds down
FloorSplitAmount(polygon_indices_amount) == polygon_indices_amount \div MAX_INDICES

MaximumSplitAmount(polygon_indices_amount) == CeilDiv(polygon_indices_amount, MAX_INDICES)

EmptySplit ==
    [map |-> <<>>, vertices |-> <<>>, normals |-> <<>>, uvs |-> <<>>, weights |-> <<>>]

\* a split that reads the attributes of a new vertex at its index in the
\* split instead of its index in the group
SplitCopyByLocalIndex(g, st, vertex_index) ==
    IF vertex_index \in DOMAIN st.map
       THEN st
       ELSE [map |-> st.map @@ (vertex_index :> Len(st.vertices)),
             vertices |-> Append(st.vertices, g.vertices[Len(st.vertices) + 1]),
             normals |-> Append(st.normals, g.normals[Len(st.vertices) + 1]),
             uvs |-> Append(st.uvs, g.uvs[Len(st.vertices) + 1]),
             weights |-> Append(st.weights, g.weights[Len(st.vertices) + 1])]

\* body of `for vertex_index in group_exporter_polygons[poly_to_split_index]`
SplitAddVertex(g, st, vertex_index) ==
    IF vertex_index \in DOMAIN st.map
       THEN st
       ELSE [map |-> st.map @@ (vertex_index :> Len(st.vertices)),
             vertices |-> Append(st.vertices, g.vertices[vertex_index + 1]),
             normals |-> Append(st.normals, g.normals[vertex_index + 1]),
             uvs |-> Append(st.uvs, g.uvs[vertex_index + 1]),
             weights |-> Append(st.weights, g.weights[vertex_index + 1])]

\* one iteration of `for poly_to_split_index in range(start_poly, end_poly)`
SplitAddPoly(g, st, poly) ==
    LET s1 == SplitAddVertex(g, st, poly[1])
        s2 == SplitAddVertex(g, s1, poly[2])
        s3 == SplitAddVertex(g, s2, poly[3])
    IN [st |-> s3, polygon |-> <<s1.map[poly[1]], s2.map[poly[2]], s3.map[poly[3]]>>]

\* the triangles lo..hi (1-based positions in group_exporter_polygons) in order;
\* halved like AddPolys
RECURSIVE SplitAddPolys(_, _, _, _)
SplitAddPolys(g, lo, hi, st) ==
    IF lo > hi THEN [st |-> st, polygons |-> <<>>]
    ELSE IF lo = hi
         THEN LET r == SplitAddPoly(g, st, g.polygons[lo])
              IN [st |-> r.st, polygons |-> <<r.polygon>>]
         ELSE LET mid == (lo + hi) \div 2
                  left == SplitAddPolys(g, lo, mid, st)
                  right == SplitAddPolys(g, mid + 1, hi, left.st)
              IN [polygons |-> left.polygons \o right.polygons, st |-> right.st]

\* the split_exporter_* lists of split number n: triangles start_poly ..
\* end_poly - 1, stopping at the end of the list (the `break`)
BuildSplit(g, n) ==
    LET start_poly == TRIS_PER_SPLIT * n
        end_poly == TRIS_PER_SPLIT * (n + 1)
        r == SplitAddPolys(g, start_poly + 1, Min(end_poly, Len(g.polygons)), EmptySplit)
    IN [vertices |-> r.st.vertices, normals |-> r.st.normals, uvs |-> r.st.uvs,
        weights |-> r.st.weights, polygons |-> r.polygons, map |-> r.st.map]

(***************************************************************************)
(* MSH export: the inputs the model draws                                  *)
(***************************************************************************)
\* vertex groups of the exported object: g.index -> g.name
VertexGroupNames == (0 :> <<"Bip01">>) @@ (1 :> <<"Spine">>) @@ (2 :> <<"Head">>) @@
                    (3 :> <<"LArm">>) @@ (4 :> <<"RArm">>)

\* the ways a mesh vertex can be skinned: 0 to 5 influences, normalised or
\* not, listed in an order that is not the weight order
Skins ==
    << <<>>,
       << [group |-> 0, weight |-> 1000000] >>,
       << [group |-> 1, weight |-> 500000] >>,
       << [group |-> 2, weight |-> 400000], [group |-> 0, weight |-> 600000] >>,
       << [group |-> 1, weight |-> 200000], [group |-> 3, weight |-> 500000],
          [group |-> 2, weight |-> 300000] >>,
       << [group |-> 0, weight |-> 100000], [group |-> 1, weight |-> 400000],
          [group |-> 2, weight |-> 200000], [group |-> 3, weight |-> 300000] >>,
       << [group |-> 4, weight |-> 100000], [group |-> 3, weight |-> 150000],
          [group |-> 2, weight |-> 300000], [group |-> 1, weight |-> 250000],
          [group |-> 0, weight |-> 200000] >>,
       << [group |-> 0, weight |-> 300000], [group |-> 1, weight |-> 300000] >> >>

\* number of mesh vertices of the drawn meshes (the vertex ring the polygons
\* walk; its length does not divide the split size, so a chunk after the first
\* meets the group's vertices in another order than the group did)
NumMeshVertices == 6

\* mesh vertex v: its position and its vertex-group assignments
MeshVertex(v, skin) ==
    [co |-> 100 + v, groups |-> Skins[((skin + v) % Len(Skins)) + 1]]

\* a polygon of `size` corners; its corners walk the vertex ring from `first`;
\* seam says which attribute of its first corner differs from polygon to polygon
MeshPolygon(p, size, material_index, first, seam) ==
    [material_index |-> material_index,
     loops |-> [c \in 1..size |->
                  [vertex_index |-> (first + c - 1) % NumMeshVertices,
                   uv |-> IF seam = "uv" /\ c = 1 THEN p ELSE 0,
                   normal |-> IF seam = "normal" /\ c = 1 THEN p ELSE 0]]]

MeshObject(name, parent_name, material_slots, skin, polygons) ==
    [name |-> name, type |-> "MESH", parent_name |-> parent_name,
     material_slots |-> material_slots,
     vertex_groups |-> VertexGroupNames,
     vertices |-> [v \in 1..NumMeshVertices |-> MeshVertex(v - 1, skin)],
     polygons |-> polygons]

EmptyObject(name, parent_name) ==
    [name |-> name, type |-> "EMPTY", parent_name |-> parent_name,
     material_slots |-> 0, vertex_groups |-> <<>>, vertices |-> <<>>, polygons |-> <<>>]

\* per-polygon choices of a small mesh: (size, material index)
PolyChoices == { <<3, 0>>, <<3, 1>>, <<4, 0>>, <<4, 1>>, <<5, 2>> }

\* small meshes: up to MaxSmallPolys polygons of 3 to 5 corners
SmallPolygonLists ==
    UNION { { [p \in 1..n |-> MeshPolygon(p, ch[p][1], ch[p][2], shift * (p - 1), seam)] :
                ch \in [1..n -> PolyChoices] }
            : n \in 0..MaxSmallPolys, shift \in {0, 2}, seam \in {"none", "uv", "normal"} }

\* large meshes: T triangles over the vertex ring, every corner attribute shared
LargePolygonList(T, material_index, stride) ==
    AsList([p \in 1..T |-> MeshPolygon(p, 3, material_index, stride * (p - 1), "none")])

\* triangle counts at a multiple of the split size and one above it
LargeTriangleCounts ==
    { TRIS_PER_SPLIT * k + d : k \in 1..MaxChunks, d \in {0, 1} }

\* the (object, format) pairs the export is run on
ExportInputs ==
    ( ( { MeshObject(<<"Foo">>, INVALID_NAME, slots, 3, polys) :
              slots \in {1, 3}, polys \in SmallPolygonLists }
        \cup
        { MeshObject(<<"Foo">>, parent, 1, skin,
                     << MeshPolygon(1, 4, 0, 0, "none"), MeshPolygon(2, 3, 0, 3, "none") >>) :
              parent \in {INVALID_NAME, <<"Bip01">>}, skin \in 0..(Len(Skins) - 1) }
        \cup
        { EmptyObject(<<"Foo">>, parent) : parent \in {INVALID_NAME, <<"Bip01">>} } )
      \X {"STANDARD", "MESH08"} )
    \cup
    { << MeshObject(<<"Foo">>, INVALID_NAME, 2, 1, LargePolygonList(T, mf[1], 1)), mf[2] >> :
          T \in LargeTriangleCounts, mf \in { <<0, "MESH08">>, <<1, "STANDARD">> } }
    \cup
    { << MeshObject(<<"Foo">>, INVALID_NAME, 2, 1,
                    Append(LargePolygonList(TRIS_PER_SPLIT + 1, 0, 1),
                           MeshPolygon(TRIS_PER_SPLIT + 2, 3, 1, 0, "none"))), fmt >> :
          fmt \in {"STANDARD", "MESH08"} }

(***************************************************************************)
(* MSH export: __export_mesh for one object, up to the point where the     *)
(* object_* accumulators are complete (msh.py 1063-1379)                   *)
(***************************************************************************)
NoGroup ==
    [vertices |-> <<>>, normals |-> <<>>, uvs |-> <<>>, weights |-> <<>>,
     polygons |-> <<>>, bones_list |-> <<>>, map |-> <<>>]

NoFile == [is_mesh08 |-> FALSE, objects |-> <<>>]

\* target_armature is None
NoArmature == <<>>

\* the import side before any file is opened
ImportIdle ==
    /\ object_num = 0
    /\ created_objects = <<>>
    /\ is_mesh08 = FALSE
    /\ count_offset = 0
    /\ object_amount = 0
    /\ msh_written = <<>>
    /\ target_armature = NoArmature

NoScene == [objects |-> <<>>, ignore_not_found |-> TRUE, files |-> <<>>]

\* export_action has not been called
NoCall == [action |-> 0, animation_data |-> <<>>, frame_current |-> 0]

\* the ANI operators before they run
AniIdle ==
    /\ file_num = 0
    /\ attempted = {}
    /\ actions = <<>>
    /\ action_num = 0
    /\ export_lists = <<>>
    /\ before_export = NoCall
    /\ disk = <<>>

InitExport ==
    /\ op = "export"
    /\ pc = "start"
    /\ \E input \in ExportInputs :
          /\ obj = input[1]
          /\ mesh_export_format = input[2]
    /\ material_polygon_groups = <<>>
    /\ group_pos = 0
    /\ grp = NoGroup
    /\ split_number = 0
    /\ exported = <<>>
    /\ msh_file = NoFile
    /\ ImportIdle
    /\ ani_scene = NoScene
    /\ AniIdle

\* lines 1147-1158
GroupPolygons ==
    /\ op = "export" /\ pc = "start" /\ obj.type = "MESH"
    /\ material_polygon_groups' = GroupByMaterial(obj)
    /\ pc' = "groups"
    /\ UNCHANGED <<op, obj, mesh_export_format, group_pos, grp, split_number, exported>>
    /\ UNCHANGED <<import_vars, ani_vars>>

\* lines 1364-1379
AddEmpty ==
    /\ op = "export" /\ pc = "start" /\ obj.type = "EMPTY"
    /\ exported' = Append(exported,
           ObjectData(mesh_export_format, obj.name, obj.parent_name,
                      <<>>, <<>>, <<>>, <<>>, <<>>, <<>>))
    /\ pc' = "collected"
    /\ UNCHANGED <<op, obj, mesh_export_format, material_polygon_groups, group_pos,
                   grp, split_number>>
    /\ UNCHANGED <<import_vars, ani_vars>>

\* mat_idx of the group being processed
CurrentMatIdx == material_polygon_groups[group_pos + 1].mat_idx

\* line 1288
SubObjectBaseName(object_name, mat_idx) ==
    IF mat_idx = 0 THEN object_name ELSE NameWithSuffix(object_name, mat_idx)

\* a name that carries the split number even for the first split
AlwaysSuffixedName(sub_object_base_name, n) == NameWithSuffix(sub_object_base_name, n)

\* line 1315
SplitObjectName(sub_object_base_name, n) ==
    IF n = 0 THEN sub_object_base_name ELSE NameWithSuffix(sub_object_base_name, n)

\* an amount that counts triangles instead of indices
PolygonCount(g) == Len(g.polygons)

\* line 1282
PolygonIndicesAmount(g) == Len(g.polygons) * 3

\* lines 1161-1282: the next material group is deduplicated and triangulated
ProcessGroup ==
    /\ op = "export" /\ pc = "groups"
    /\ group_pos < Len(material_polygon_groups)
    /\ grp' = BuildGroup(obj, material_polygon_groups[group_pos + 1].polys)
    /\ split_number' = 0
    /\ pc' = "emit"
    /\ UNCHANGED <<op, obj, mesh_export_format, material_polygon_groups, group_pos, exported>>
    /\ UNCHANGED <<import_vars, ani_vars>>

\* lines 1292-1308: the group fits in one sub-object
EmitWhole ==
    /\ op = "export" /\ pc = "emit"
    /\ PolygonIndicesAmount(grp) <= MAX_INDICES
    /\ exported' = Append(exported,
           ObjectData(mesh_export_format,
                      SubObjectBaseName(obj.name, CurrentMatIdx), obj.parent_name,
                      grp.vertices, grp.normals, grp.uvs, grp.polygons, grp.weights,
                      grp.bones_list))
    /\ group_pos' = group_pos + 1
    /\ pc' = "groups"
    /\ UNCHANGED <<op, obj, mesh_export_format, material_polygon_groups, grp, split_number>>
    /\ UNCHANGED <<import_vars, ani_vars>>

\* lines 1309-1361: one iteration of `for split_number in range(0, maximum_split_amount)`
EmitSplit ==
    /\ op = "export" /\ pc = "emit"
    /\ PolygonIndicesAmount(grp) > MAX_INDICES
    /\ split_number < MaximumSplitAmount(PolygonIndicesAmount(grp))
    /\ LET split == BuildSplit(grp, split_number)
       IN exported' = Append(exported,
              ObjectData(mesh_export_format,
                         SplitObjectName(SubObjectBaseName(obj.name, CurrentMatIdx),
                                         split_number),
                         obj.parent_name,
                         split.vertices, split.normals, split.uvs, split.polygons,
                         split.weights, grp.bones_list))
    /\ split_number' = split_number + 1
    /\ IF split_number + 1 = MaximumSplitAmount(PolygonIndicesAmount(grp))
          THEN group_pos' = group_pos + 1 /\ pc' = "groups"
          ELSE UNCHANGED <<group_pos, pc>>
    /\ UNCHANGED <<op, obj, mesh_export_format, material_polygon_groups, grp>>
    /\ UNCHANGED <<import_vars, ani_vars>>

\* the loop over the material groups has ended
FinishCollect ==
    /\ op = "export" /\ pc = "groups"
    /\ group_pos = Len(material_polygon_groups)
    /\ pc' = "collected"
    /\ UNCHANGED <<op, obj, mesh_export_format, material_polygon_groups, group_pos,
                   grp, split_number, exported>>
    /\ UNCHANGED <<import_vars, ani_vars>>

(***************************************************************************)
(* MSH export: writing the file (msh.py 1384-1468)                         *)
(***************************************************************************)
\* Serializer.write_fixed_string(width, encoding, text): a text of more than
\* width - 1 bytes leaves no room for the terminating zero byte and is an
\* encoding error
FixedStringFits(width, text_bytes) == text_bytes <= width - 1

\* a writer of the weight amount that does not look at the parent name
VertexCountAsWeightAmount(o) == o.weight_amount

\* lines 1401-1404: the weight amount written in the header of a sub-object
HeaderWeightAmount(o) == IF o.parent_name = INVALID_NAME THEN o.weight_amount ELSE 0

\* lines 1394-1462: what is written for one sub-object, named as the reader
\* names it.  A "4h" bone index is read back as "4H", a UV of the exporter
\* stands for the pair (uv, uv), the zero bytes of an unused name slot are the
\* empty name.
WrittenObject(fmt, o) ==
    IF fmt = "MESH08"
       THEN [name |-> o.name,
             parent_name |-> o.parent_name,
             vertex_amount |-> o.vertex_amount,
             header_triangle_amount |-> o.face_amount,
             weight_amount |-> HeaderWeightAmount(o),
             weight_model_type |-> 1,
             mesh08_vertex_amount |-> o.vertex_amount,
             vertices |-> AsList([i \in 1..Len(o.vertex_data) |->
                 LET v == o.vertex_data[i]
                     written_indices == IF o.parent_name = INVALID_NAME
                                           THEN v.unique_bone_indices
                                           ELSE <<-1, -1, -1, 0>>
                 IN [position |-> v.position,
                     read_weights |-> v.weight_values,
                     bone_indices |-> [k \in 1..4 |-> written_indices[k] % 65536],
                     normal |-> v.normal,
                     uv |-> <<v.uv, -v.uv>>]]),
             triangle_amount |-> o.face_amount * 3,
             triangles |-> AsList([j \in 1..(Len(o.face_data) \div 3) |->
                 <<o.face_data[3 * j - 2], o.face_data[3 * j - 1], o.face_data[3 * j]>>]),
             bone_group_amount |-> Len(o.weight_data),
             bone_groups |-> AsList([g \in 1..Len(o.weight_data) |->
                 [bone_amount |-> o.weight_data[g].bone_amount,
                  bone_names |-> o.weight_data[g].bone_names
                                   \o Repeat(INVALID_NAME, 4 - o.weight_data[g].bone_amount)]])]
       ELSE [name |-> o.name,
             parent_name |-> o.parent_name,
             vertex_amount |-> o.vertex_amount,
             triangle_amount |-> o.face_amount,
             weight_amount |-> HeaderWeightAmount(o),
             weight_model_type |-> 1,
             base_vertices |-> o.vertex_data,
             triangles |-> o.face_data,
             bone_amount |-> Len(o.unique_bones_list),
             bone_names |-> o.unique_bones_list,
             weight_records |-> IF o.parent_name = INVALID_NAME THEN o.weight_data ELSE <<>>]

\* lines 1394-1462: the bytes written for one sub-object, block by block
WrittenBytes(fmt, o) ==
    [header |-> 100 + 100 + 64 + 64 + 64 + 2 + 2 + 2 + 100 + 100 + 36 + 4 + 4 + 4 + 47,
     vertices |-> IF fmt = "MESH08"
                     THEN 2 + (12 + 12 + 8 + 12 + 8 + 12) * Len(o.vertex_data)
                     ELSE (12 + 4 + 12) * Len(o.vertex_data),
     triangles |-> IF fmt = "MESH08"
                      THEN 2 + 2 * Len(o.face_data)
                      ELSE (12 + 3 * 12 + 3 * 12 + 4) * Len(o.face_data),
     weights |-> IF fmt = "MESH08"
                    THEN 2 + SumSeq([g \in 1..Len(o.weight_data) |->
                                 4 + 100 * Len(o.weight_data[g].bone_names)
                                   + 100 * (4 - o.weight_data[g].bone_amount)])
                    ELSE 4 + 100 * Len(o.unique_bones_list)
                           + (IF o.parent_name = INVALID_NAME
                                 THEN (4 + 4 + 4 * 4 + 4 * 4) * Len(o.weight_data)
                                 ELSE 0)]

\* lines 495-670: the bytes the reader consumes for one object, block by block,
\* from the amounts it has read
ConsumedBytes(mesh08, fo) ==
    [header |-> 100 + 100 + 64 + 128 + 2 + 2 + 2 + 100 + 100 + 12 + 12 + 12 + 8 + 4 + 12 + 4 + 31,
     vertices |-> IF mesh08
                     THEN 2 + (12 + 12 + 8 + 12 + 8 + 12) * fo.mesh08_vertex_amount
                     ELSE (12 + 4 + 12) * fo.vertex_amount,
     triangles |-> IF mesh08
                      THEN 2 + 6 * (fo.triangle_amount \div 3)
                      ELSE (12 + 3 * 12 + 3 * 12 + 4) * fo.triangle_amount,
     weights |-> IF mesh08
                    THEN 2 + SumSeq([g \in 1..fo.bone_group_amount |->
                                 4 + 100 * fo.bone_groups[g].bone_amount
                                   + (4 - fo.bone_groups[g].bone_amount) * 100])
                    ELSE IF fo.weight_model_type = 1
                            THEN 4 + 100 * fo.bone_amount + (24 + 16) * fo.weight_amount
                            ELSE (8 + 4 * 100 + 16) * fo.weight_amount]

\* lines 1384-1468: the file is opened and written; an exception of the writer
\* closes and removes it
WriteFile ==
    /\ op = "export" /\ pc = "collected"
    /\ IF mesh_export_format = "MESH08" => FixedStringFits(6, Len(MAGIC))
          THEN /\ disk' = << [head |-> (IF mesh_export_format = "MESH08" THEN MAGIC ELSE <<>>)
                                         \o UShortBytes(Len(exported)),
                              objects |-> AsList([k \in 1..Len(exported) |->
                                             WrittenObject(mesh_export_format, exported[k])])] >>
               /\ pc' = "written"
          ELSE /\ disk' = <<>>
               /\ pc' = "write_failed"
    /\ UNCHANGED <<op, export_vars, import_vars>>
    /\ UNCHANGED <<ani_scene, file_num, attempted, actions, action_num, export_lists, before_export>>

NextExport ==
    \/ GroupPolygons
    \/ AddEmpty
    \/ ProcessGroup
    \/ EmitWhole
    \/ EmitSplit
    \/ FinishCollect
    \/ WriteFile

SpecExport == InitExport /\ [][NextExport]_vars

(***************************************************************************)
(* Reading the exported sub-objects back, for the properties below         *)
(***************************************************************************)
\* triangle j (1-based) of an exported sub-object, as its three vertex indices
ObjTriangle(fmt, o, j) ==
    IF fmt = "MESH08"
       THEN <<o.face_data[3 * j - 2], o.face_data[3 * j - 1], o.face_data[3 * j]>>
       ELSE o.face_data[j].tri

\* attributes of vertex i (0-based) of an exported sub-object
ObjPosition(o, i) == o.vertex_data[i + 1].position
ObjNormal(o, i) == o.vertex_data[i + 1].normal
ObjBoneIndices(fmt, o, i) ==
    IF fmt = "MESH08" THEN o.vertex_data[i + 1].unique_bone_indices
                      ELSE o.weight_data[i + 1].bone_indices
ObjThreeWeights(fmt, o, i) ==
    IF fmt = "MESH08" THEN o.vertex_data[i + 1].weight_values
                      ELSE Take(o.weight_data[i + 1].weights, 3)
\* UV of corner k of triangle j
ObjCornerUV(fmt, o, j, k) ==
    IF fmt = "MESH08" THEN o.vertex_data[ObjTriangle(fmt, o, j)[k] + 1].uv
                      ELSE o.face_data[j].uvs[k][1]

\* the group held in grp has been split (or is being split)
GroupIsSplit == PolygonIndicesAmount(grp) > MAX_INDICES

\* the sub-object emitted for split number n of the group held in grp
Chunk(n) == exported[Len(exported) - split_number + n + 1]

\* the polygons of the material group held in grp
CurrentGroupPolys ==
    IF pc = "emit" THEN material_polygon_groups[group_pos + 1].polys
    ELSE IF pc \in {"groups", "collected"} /\ group_pos >= 1
            THEN material_polygon_groups[group_pos].polys
            ELSE <<>>

(***************************************************************************)
(* C1: every sub-object the export emits has at most 65535 triangle        *)
(* indices (triangles x 3) and at most 65535 vertices, whatever the        *)
(* triangle count of its material group, so the uint16 counts fit.         *)
(***************************************************************************)
C1_IndexCountFits ==
    op = "export" =>
        \A i \in 1..Len(exported) :
            /\ exported[i].face_amount * 3 <= MAX_INDICES
            /\ exported[i].vertex_amount <= MAX_INDICES
            /\ exported[i].vertex_amount <= exported[i].face_amount * 3
            /\ Len(exported[i].vertex_data) = exported[i].vertex_amount
            /\ mesh_export_format = "MESH08" =>
                   Len(exported[i].face_data) = exported[i].face_amount * 3

C1_Witness ==
    /\ op = "export" /\ pc = "collected"
    /\ Len(obj.polygons) > 2 * TRIS_PER_SPLIT
    /\ Len(exported) = 3
    /\ exported[1].face_amount * 3 = MAX_INDICES

(***************************************************************************)
(* C2: a single material group (material index 0, object Foo) of exactly   *)
(* 21845 triangles gives exactly one sub-object, named Foo; of 21846       *)
(* triangles exactly two, named Foo and Foo_1, holding 21845 and 1.        *)
(***************************************************************************)
SingleGroupDone(triangles) ==
    /\ op = "export" /\ pc = "collected"
    /\ obj.type = "MESH" /\ obj.name = <<"Foo">>
    /\ Len(material_polygon_groups) = 1
    /\ material_polygon_groups[1].mat_idx = 0
    /\ Len(grp.polygons) = triangles

SameCorner(n, j, k) ==
    LET c == Chunk(n)
        li == ObjTriangle(mesh_export_format, c, j)[k]
        gi == grp.polygons[TRIS_PER_SPLIT * n + j][k]
    IN /\ ObjPosition(c, li) = grp.vertices[gi + 1]
       /\ ObjNormal(c, li) = grp.normals[gi + 1]
       /\ ObjCornerUV(mesh_export_format, c, j, k) = grp.uvs[gi + 1]
       /\ ObjBoneIndices(mesh_export_format, c, li) = grp.weights[gi + 1][2]
       /\ ObjThreeWeights(mesh_export_format, c, li) = grp.weights[gi + 1][1]

ChunkSizes == [n \in 1..split_number |-> Chunk(n - 1).face_amount]

C3_ChunksPartition ==
    (op = "export" /\ GroupIsSplit) =>
        /\ \A n \in 0..(split_number - 1) :
              /\ Chunk(n).face_amount > 0
              /\ Chunk(n).face_amount =
                     Min(TRIS_PER_SPLIT, Len(grp.polygons) - TRIS_PER_SPLIT * n)
              /\ \A j \in 1..Chunk(n).face_amount : \A k \in 1..3 : SameCorner(n, j, k)
        /\ pc # "emit" => SumSeq(ChunkSizes) = Len(grp.polygons)

C3_Witness ==
    /\ op = "export" /\ GroupIsSplit /\ pc = "collected"
    /\ split_number = 3
    /\ Chunk(2).face_amount = 1

(***************************************************************************)
(* C4: every chunk of a split group is self-contained: its triangle        *)
(* indices are below its own vertex count, each of its vertices is used by *)
(* one of its triangles, no group vertex is stored twice in it, and a      *)
(* remapped index reaches the attributes of the group vertex the original  *)
(* index pointed to.                                                       *)
(***************************************************************************)
\* (chunk index, group index) of every corner of chunk n
ChunkCornerPairs(n) ==
    { << ObjTriangle(mesh_export_format, Chunk(n), j)[k],
         grp.polygons[TRIS_PER_SPLIT * n + j][k] >> :
        j \in 1..Chunk(n).face_amount, k \in 1..3 }

ChunkSelfContained(n) ==
    LET c == Chunk(n)
        pairs == ChunkCornerPairs(n)
    IN /\ \A pr \in pairs : pr[1] \in 0..(c.vertex_amount - 1)
       /\ {pr[1] : pr \in pairs} = 0..(c.vertex_amount - 1)
       /\ \A p1, p2 \in pairs : (p1[1] = p2[1]) <=> (p1[2] = p2[2])
       /\ \A j \in 1..c.face_amount : \A k \in 1..3 : SameCorner(n, j, k)

C4_ChunksSelfContained ==
    (op = "export" /\ GroupIsSplit) =>
        \A n \in 0..(split_number - 1) : ChunkSelfContained(n)

C4_Witness ==
    /\ op = "export" /\ GroupIsSplit /\ pc = "collected"
    /\ split_number = 2
    /\ Chunk(1).face_amount = 1
    /\ Chunk(1).vertex_amount = 3
    /\ Chunk(0).vertex_amount = NumMeshVertices
    /\ ObjTriangle(mesh_export_format, Chunk(1), 1) = <<0, 1, 2>>
    /\ grp.polygons[TRIS_PER_SPLIT + 1] # <<0, 1, 2>>

(***************************************************************************)
(* C5: within one material group the output vertices are the distinct      *)
(* (mesh vertex index, UV, normal) keys of its face corners: equal keys    *)
(* share an output index, different keys get different ones, and indices   *)
(* are dense from 0 in first-encounter order.                              *)
(***************************************************************************)
\* what identifies an output vertex: mesh vertex index, UV and normal of a corner
CornerKey(loop) == <<loop.vertex_index, loop.uv, loop.normal>>

PolyKeys(poly) == {CornerKey(poly.loops[c]) : c \in 1..Len(poly.loops)}

GroupKeys(polys) == UNION {PolyKeys(polys[p]) : p \in 1..Len(polys)}

\* <<polygon, corner>> of the first corner that carries key
FirstEncounter(polys, key) ==
    LET p == CHOOSE x \in 1..Len(polys) :
                 /\ key \in PolyKeys(polys[x])
                 /\ \A y \in 1..(x - 1) : key \notin PolyKeys(polys[y])
        c == CHOOSE x \in 1..Len(polys[p].loops) :
                 /\ CornerKey(polys[p].loops[x]) = key
                 /\ \A y \in 1..(x - 1) : CornerKey(polys[p].loops[y]) # key
    IN <<p, c>>

EncounteredBefore(polys, k1, k2) ==
    LET e1 == FirstEncounter(polys, k1)
        e2 == FirstEncounter(polys, k2)
    IN e1[1] < e2[1] \/ (e1[1] = e2[1] /\ e1[2] < e2[2])

RECURSIVE ConcatRange(_, _, _)
ConcatRange(seqs, lo, hi) ==
    IF lo > hi THEN <<>>
    ELSE IF lo = hi THEN seqs[lo]
    ELSE LET mid == (lo + hi) \div 2
         IN ConcatRange(seqs, lo, mid) \o ConcatRange(seqs, mid + 1, hi)

\* the triangles of the group when every corner is replaced by the output
\* index of its key
TrianglesOfKeys(polys, map) ==
    ConcatRange([p \in 1..Len(polys) |->
                    Triangulate([c \in 1..Len(polys[p].loops) |->
                                    map[CornerKey(polys[p].loops[c])]])],
                1, Len(polys))

C5_DedupByKey ==
    (op = "export" /\ CurrentGroupPolys # <<>>) =>
        LET polys == CurrentGroupPolys
            keys == GroupKeys(polys)
        IN /\ Len(grp.vertices) = Cardinality(keys)
           /\ DOMAIN grp.map = keys
           /\ \A k1, k2 \in keys : (k1 # k2) => (grp.map[k1] # grp.map[k2])
           /\ {grp.map[k] : k \in keys} = 0..(Cardinality(keys) - 1)
           /\ \A k1, k2 \in keys :
                  EncounteredBefore(polys, k1, k2) => grp.map[k1] < grp.map[k2]
           /\ \A k \in keys :
                  /\ grp.vertices[grp.map[k] + 1] = obj.vertices[k[1] + 1].co
                  /\ grp.uvs[grp.map[k] + 1] = k[2]
                  /\ grp.normals[grp.map[k] + 1] = k[3]
           /\ grp.polygons = TrianglesOfKeys(polys, grp.map)

\* a group with a seam (two keys on one mesh vertex) and with shared corners
C5_Witness ==
    /\ op = "export" /\ pc = "emit"
    /\ Len(CurrentGroupPolys) = 2
    /\ \E k1, k2 \in DOMAIN grp.map : k1 # k2 /\ k1[1] = k2[1]
    /\ Len(grp.vertices) <
           Len(CurrentGroupPolys[1].loops) + Len(CurrentGroupPolys[2].loops)
    /\ Len(grp.vertices) > Cardinality({k[1] : k \in DOMAIN grp.map})

(***************************************************************************)
(* C9: in a legacy (STANDARD) export every weight slot of every exported   *)
(* vertex whose bone index is the unused marker -1 carries weight 0, for   *)
(* vertices with 0 to 4 influences, normalised or not.                     *)
(***************************************************************************)
C9_UnusedSlotsCarryZero ==
    (op = "export" /\ mesh_export_format = "STANDARD") =>
        \A i \in 1..Len(exported) :
            exported[i].parent_name = INVALID_NAME =>
                \A v \in 1..Len(exported[i].weight_data) : \A slot \in 1..4 :
                    exported[i].weight_data[v].bone_indices[slot] = NO_BONE
                        => exported[i].weight_data[v].weights[slot] = 0

(***************************************************************************)
(* MSH import: reading one object (msh.py 491-790)                         *)
(***************************************************************************)
\* reader.read_converted_vector3f(): the stored vector expressed in Blender's
\* axes.  The converter itself is not part of the sources at hand; it is kept
\* as an injective change of representation.
ReadConvertedVector(v) == [blender |-> v]

\* a weight list whose fourth entry is always the remainder
AlwaysImpliedFourth(read_weights) == Append(read_weights, ONE - SumSeq(read_weights))

\* lines 568-578: the weight list of a MESH08 vertex from its 3 stored floats
FinalWeights(read_weights) ==
    LET s == SumSeq(read_weights)
        with_implied == IF s < ONE - WEIGHT_TOLERANCE
                           THEN Append(read_weights, ONE - s)
                           ELSE read_weights
        padded == with_implied \o Repeat(0, 4 - Len(with_implied))
    IN IF SumSeq(padded) < DEGENERATE_SUM THEN <<ONE, 0, 0, 0>> ELSE padded

\* lines 583-584: the UV of a MESH08 vertex
Mesh08UV(stored_uv) == <<stored_uv[1], -stored_uv[2]>>

\* lines 633-635: __read_uv keeps the first two of the three stored floats
LegacyReadUV(impure_uv) == <<impure_uv[1], impure_uv[2]>>

\* lines 604-606: the names of one bone group, appended when not yet listed
RECURSIVE AppendNewNames(_, _, _)
AppendNewNames(unique_bone_names, bone_names, k) ==
    IF k > Len(bone_names) THEN unique_bone_names
    ELSE AppendNewNames(IF bone_names[k] \in Range(unique_bone_names)
                           THEN unique_bone_names
                           ELSE Append(unique_bone_names, bone_names[k]),
                        bone_names, k + 1)

\* lines 595-608: the flattened bone name list of a MESH08 object
RECURSIVE UniqueBoneNames(_, _, _)
UniqueBoneNames(bone_groups, g, unique_bone_names) ==
    IF g > Len(bone_groups) THEN unique_bone_names
    ELSE UniqueBoneNames(bone_groups, g + 1,
             AppendNewNames(unique_bone_names,
                            Take(bone_groups[g].bone_names, bone_groups[g].bone_amount), 1))

\* bmesh.ops.remove_doubles (lines 781-790) merges vertices closer than 0.0001;
\* positions here are either equal or far apart: the positions that are left
RECURSIVE MergedPositions(_, _, _)
MergedPositions(vertices, k, kept) ==
    IF k > Len(vertices) THEN kept
    ELSE MergedPositions(vertices, k + 1,
             IF vertices[k] \in Range(kept) THEN kept ELSE Append(kept, vertices[k]))

\* lines 559-616: the lists built from a MESH08 object; failed when a bone
\* index has no entry in unique_bone_names (IndexError)
ReadMesh08(fo) ==
    LET n == Len(fo.vertices)
        weights == IF fo.weight_amount > 0
                      THEN [i \in 1..n |-> FinalWeights(fo.vertices[i].read_weights)]
                      ELSE <<>>
        unique_bone_names == UniqueBoneNames(fo.bone_groups, 1, <<>>)
        failed == \E i \in 1..Len(weights) : \E slot \in 1..Len(weights[i]) :
                      fo.vertices[i].bone_indices[slot] >= Len(unique_bone_names)
    IN [failed |-> failed,
        vertex_amount |-> n,
        vertices |-> [i \in 1..n |-> ReadConvertedVector(fo.vertices[i].position)],
        normals |-> [i \in 1..n |-> ReadConvertedVector(fo.vertices[i].normal)],
        uvs |-> [i \in 1..n |-> Mesh08UV(fo.vertices[i].uv)],
        triangles |-> Take(fo.triangles, fo.triangle_amount \div 3),
        weights |-> weights,
        weight_bones |->
            IF failed THEN <<>>
            ELSE [i \in 1..Len(weights) |->
                     [slot \in 1..Len(weights[i]) |->
                         unique_bone_names[fo.vertices[i].bone_indices[slot] + 1]]]]

\* lines 646-669: base_vertices_weights, vertex index -> <<bone names, weights>>;
\* a later record of the same vertex replaces the earlier one
LegacyWeightNames(fo, w) ==
    IF fo.weight_model_type = 1
       THEN [i \in 1..4 |-> IF w.bone_indices[i] # -1
                               THEN fo.bone_names_for_assignment[w.bone_indices[i] + 1]
                               ELSE INVALID_NAME]
       ELSE w.bone_names

RECURSIVE BaseVerticesWeights(_, _, _)
BaseVerticesWeights(fo, k, dict) ==
    IF k > Len(fo.weights) THEN dict
    ELSE LET w == fo.weights[k]
             entry == <<LegacyWeightNames(fo, w), w.read_weights>>
         IN BaseVerticesWeights(fo, k + 1,
                [x \in (DOMAIN dict) \cup {w.vertex_index} |->
                    IF x = w.vertex_index THEN entry ELSE dict[x]])

\* lines 682-689: the values of the slots whose bone name is a real bone
RECURSIVE KeptOf(_, _, _)
KeptOf(values, bone_names, i) ==
    IF i > Len(values) THEN <<>>
    ELSE (IF bone_names[i] # INVALID_NAME THEN <<values[i]>> ELSE <<>>)
         \o KeptOf(values, bone_names, i + 1)

\* lines 675-689: one corner of a stored triangle appended to the output lists
UnweldCorner(out, base, i, n) ==
    LET vertex_index == base.triangles[i][n]
        with_geometry ==
            [out EXCEPT !.vertices = Append(@, base.vertices[vertex_index + 1]),
                        !.normals = Append(@, base.triangle_normals[i][n]),
                        !.uvs = Append(@, base.triangle_uvs[i][n])]
    IN IF base.vertices_weights = <<>> THEN with_geometry
       ELSE IF vertex_index \notin DOMAIN base.vertices_weights
               THEN [with_geometry EXCEPT !.failed = TRUE]
               ELSE LET d == base.vertices_weights[vertex_index]
                    IN [with_geometry EXCEPT
                           !.weights = Append(@, KeptOf(d[2], d[1], 1)),
                           !.weight_bones = Append(@, KeptOf(d[1], d[1], 1))]

\* lines 673-692: `for i, tri in enumerate(base_triangles)`
RECURSIVE Unweld(_, _, _)
Unweld(out, base, i) ==
    IF i > Len(base.triangles) \/ out.failed THEN out
    ELSE LET vertices_len == Len(out.vertices)
             c1 == UnweldCorner(out, base, i, 1)
             c2 == UnweldCorner(c1, base, i, 2)
             c3 == UnweldCorner(c2, base, i, 3)
         IN Unweld([c3 EXCEPT !.triangles =
                        Append(@, <<vertices_len, vertices_len + 1, vertices_len + 2>>)],
                   base, i + 1)

\* lines 619-692: the lists built from a legacy object; failed when a corner
\* references a vertex without weight record while others have one (KeyError)
ReadLegacy(fo) ==
    LET base ==
            [vertices |-> [i \in 1..Len(fo.base_vertices) |->
                              ReadConvertedVector(fo.base_vertices[i].position)],
             triangles |-> [i \in 1..Len(fo.triangles) |-> fo.triangles[i].indices],
             triangle_normals |->
                 [i \in 1..Len(fo.triangles) |->
                     [n \in 1..3 |-> ReadConvertedVector(fo.triangles[i].normals[n])]],
             triangle_uvs |->
                 [i \in 1..Len(fo.triangles) |->
                     [n \in 1..3 |-> LegacyReadUV(fo.triangles[i].uvs[n])]],
             vertices_weights |-> BaseVerticesWeights(fo, 1, <<>>)]
        out == Unweld([failed |-> FALSE, vertices |-> <<>>, normals |-> <<>>,
                       uvs |-> <<>>, triangles |-> <<>>, weights |-> <<>>,
                       weight_bones |-> <<>>], base, 1)
    IN [failed |-> out.failed,
        vertex_amount |-> Len(fo.base_vertices),
        vertices |-> out.vertices, normals |-> out.normals, uvs |-> out.uvs,
        triangles |-> out.triangles, weights |-> out.weights,
        weight_bones |-> out.weight_bones]

\* lines 701-790: the object left in the scene.  vertices .. weight_bones are
\* the lists of lines 552-557 as filled for the object; mesh_positions are the
\* vertices of its mesh once remove_doubles has run
CreatedObject(fo, r) ==
    [name |-> fo.name,
     msh_bind_matrix |-> fo.world_matrix,
     has_mesh |-> r.vertex_amount # 0,
     armature_modifier |-> NoArmature,
     vertices |-> r.vertices, normals |-> r.normals, uvs |-> r.uvs,
     triangles |-> r.triangles, weights |-> r.weights, weight_bones |-> r.weight_bones,
     mesh_positions |-> IF r.vertex_amount # 0
                           THEN MergedPositions(r.vertices, 1, <<>>)
                           ELSE <<>>]

(***************************************************************************)
(* Import inputs: the parsed contents of small MSH files                   *)
(***************************************************************************)
StoredWeights == {0, 5, 100000, 300000, 400000, 500000, 600000, 999985}

FileBoneGroups ==
    { << [bone_amount |-> 4,
          bone_names |-> << <<"Bip01">>, <<"Spine">>, <<"Head">>, <<"LArm">> >>],
         [bone_amount |-> 1,
          bone_names |-> << <<"RArm">>, <<"">>, <<"">>, <<"">> >>] >>,
      << [bone_amount |-> 2,
          bone_names |-> << <<"Bip01">>, <<"Spine">>, <<"">>, <<"">> >>],
         [bone_amount |-> 2,
          bone_names |-> << <<"Spine">>, <<"Head">>, <<"">>, <<"">> >>] >> }

FileBoneIndices == {<<0, 1, 2, 3>>, <<2, 2, 0, 0>>, <<0, 1, 65535, 65535>>}

\* vertex i of a MESH08 object: the stored triple is rotated from vertex to vertex
Mesh08FileVertex(i, triple, bone_indices) ==
    [position |-> 200 + i, normal |-> 300 + i, uv |-> <<i, 10 + i>>,
     read_weights |-> [k \in 1..3 |-> triple[((k + i - 2) % 3) + 1]],
     bone_indices |-> bone_indices]

Mesh08FileObject(n, weight_amount, triple, bone_indices, bone_groups) ==
    [name |-> <<"Body">>, weight_amount |-> weight_amount, weight_model_type |-> 0,
     vertices |-> [i \in 1..n |-> Mesh08FileVertex(i, triple, bone_indices)],
     triangle_amount |-> 3,
     triangles |-> << <<0, n - 1, 0>> >>,
     bone_groups |-> bone_groups]

Mesh08Files ==
    { [is_mesh08 |-> TRUE,
       objects |-> << Mesh08FileObject(n, wa * n, <<w1, w2, w3>>, bi, bg) >>] :
         n \in 1..MaxImportVertices, wa \in {0, 1},
         w1 \in StoredWeights, w2 \in StoredWeights, w3 \in StoredWeights,
         bi \in FileBoneIndices, bg \in FileBoneGroups }

\* corner index triples of a stored triangle over nb base vertices
TriangleShapes(nb) ==
    { << a, (a + d[1]) % nb, (a + d[2]) % nb >> :
        a \in 0..(nb - 1), d \in {<<0, 0>>, <<1, 2>>, <<1, 1>>} }

LegacyFileTriangle(i, indices) ==
    [indices |-> indices,
     normals |-> [n \in 1..3 |-> 10 * i + n],
     uvs |-> [n \in 1..3 |-> <<i, n, 0>>]]

LegacyWeightRecord(b) ==
    [vertex_index |-> b,
     bone_names |-> << <<"Bip01">>, <<"">>, <<"Spine">>, <<"">> >>,
     bone_indices |-> <<0, -1, 1, -1>>,
     read_weights |-> <<600000, 0, 400000 - 100000 * b, 0>>]

LegacyWeightModes == {"none", "names", "indices", "partial"}

LegacyFileObject(nb, tris, mode) ==
    [name |-> <<"Body">>,
     weight_model_type |-> IF mode = "indices" THEN 1 ELSE 0,
     base_vertices |-> [b \in 1..nb |-> [position |-> 100 + b, normal |-> 150 + b]],
     triangles |-> [i \in 1..Len(tris) |-> LegacyFileTriangle(i, tris[i])],
     bone_names_for_assignment |-> << <<"Bip01">>, <<"Spine">> >>,
     weights |-> CASE mode = "none" -> <<>>
                   [] mode = "partial" -> << LegacyWeightRecord(0) >>
                   [] OTHER -> [b \in 1..nb |-> LegacyWeightRecord(b - 1)],
     weight_amount |-> CASE mode = "none" -> 0
                         [] mode = "partial" -> 1
                         [] OTHER -> nb]

TriangleLists(nb) ==
    UNION { [1..T -> TriangleShapes(nb)] : T \in 0..MaxLegacyTriangles }

LegacyFiles ==
    { [is_mesh08 |-> FALSE,
       objects |-> << LegacyFileObject(in[1], in[2], mode) >>] :
         in \in UNION { {<<nb, tris>> : tris \in TriangleLists(nb)} :
                          nb \in 0..MaxBaseVertices },
         mode \in LegacyWeightModes }

ReadUShort(bytes, offset) == bytes[offset + 1] + 256 * bytes[offset + 2]

\* a read of one byte more than the magic is long
ReadSevenBytes(head) == Take(head, 7)

\* opened_file.read(6) at the start of the stream: the bytes there are, at most 6
ReadMagic(head) == Take(head, 6)

\* bytes.decode("ascii", "ignore"): bytes above 127 are dropped
DecodeAsciiIgnore(bytes) == SelectSeq(bytes, LAMBDA b : b < 128)

\* the per-object header fields the importer reads and does not keep
\* (lines 508-509, 537-550); world_matrix "W" stands for the one matrix it keeps
PlainReserved ==
    [local_matrix |-> "W", third_matrix |-> "identity",
     unknown_float3_1 |-> <<0, 0, 0>>, unknown_flags_1 |-> <<1, 256>>,
     unknown_float3_2 |-> <<0, 0, 0>>, unknown_float_1 |-> 0, reserved31 |-> "zeros"]

\* a well-formed file: its first bytes are the magic (MESH08 only), the object
\* count and, for the legacy variant, the start of the first name; every
\* stored object gets its world matrix and its reserved fields
WithHead(file, reserved) ==
    LET WithHeader(fo) ==
            [f \in (DOMAIN fo) \cup {"world_matrix", "reserved"} |->
                IF f = "world_matrix" THEN "W"
                ELSE IF f = "reserved" THEN reserved
                ELSE fo[f]]
    IN
    [is_mesh08 |-> file.is_mesh08,
     head |-> IF file.is_mesh08
                 THEN MAGIC \o UShortBytes(Len(file.objects))
                 ELSE UShortBytes(Len(file.objects)) \o <<66, 111, 100, 121>>,
     objects |-> [k \in 1..Len(file.objects) |-> WithHeader(file.objects[k])]]

\* files of objects without vertices, one for every choice of reserved fields
ReservedFiles ==
    LET ReservedChoices ==
            { PlainReserved,
              [PlainReserved EXCEPT !.local_matrix = "L"],
              [PlainReserved EXCEPT !.third_matrix = "T"],
              [PlainReserved EXCEPT !.unknown_float3_1 = <<1, 2, 3>>],
              [PlainReserved EXCEPT !.unknown_flags_1 = <<0, 7>>],
              [PlainReserved EXCEPT !.unknown_float3_2 = <<4, 5, 6>>],
              [PlainReserved EXCEPT !.unknown_float_1 = 9],
              [PlainReserved EXCEPT !.reserved31 = "data"] }
    IN
    { WithHead([is_mesh08 |-> FALSE, objects |-> << LegacyFileObject(0, <<>>, "none") >>],
               reserved) : reserved \in ReservedChoices }
    \cup
    { WithHead([is_mesh08 |-> TRUE,
                objects |-> << Mesh08FileObject(0, 0, <<0, 0, 0>>, <<0, 0, 0, 0>>, <<>>),
                               Mesh08FileObject(1, 0, <<0, 0, 0>>, <<0, 0, 0, 0>>, <<>>) >>],
               reserved) : reserved \in ReservedChoices }

\* first bytes that are not a well-formed start: short files, bytes outside
\* ASCII before, inside and after the magic, other spellings
OddHeads ==
    { <<>>, <<77>>, <<77, 69, 83, 72, 48>>, MAGIC, MAGIC \o <<0>>, MAGIC \o <<0, 0>>,
      <<77, 69, 83, 72, 48, 57, 0, 0>>, <<109, 101, 115, 104, 48, 56, 0, 0>>,
      <<200>> \o MAGIC \o <<0>>, <<77, 69, 83, 200, 72, 48, 56, 0>>,
      <<77, 69, 83, 72, 48, 184, 0, 0>>, <<77, 69, 83, 72, 48, 200, 56, 0>>,
      <<0, 0>>, <<0, 0, 77, 69, 83, 72, 48, 56>>, <<0>> }

ImportInputs ==
    { WithHead(file, PlainReserved) : file \in Mesh08Files \cup LegacyFiles }
    \cup ReservedFiles
    \cup { [is_mesh08 |-> FALSE, head |-> h, objects |-> <<>>] : h \in OddHeads }

(***************************************************************************)
(* The scene of an MSH import and the choice of the armature (427-489)     *)
(***************************************************************************)
\* scenes without armature, with an armature of two bones, and with a second
\* armature of all five bones; the selection holds none, one or both of them
MshScenes ==
    LET MshArmature(name, bones) ==
            [name |-> name, type |-> "ARMATURE",
             bones |-> [b \in 1..Len(bones) |-> [name |-> bones[b]]]]
        small == MshArmature(<<"Rig">>, << <<"Bip01">>, <<"Spine">> >>)
        full == MshArmature(<<"FullRig">>, << <<"Bip01">>, <<"Spine">>, <<"Head">>,
                                             <<"LArm">>, <<"RArm">> >>)
    IN { [objects |-> objects, selected |-> selected,
          apply_to_armature_in_selected |-> apply,
          ignore_not_found |-> TRUE, files |-> <<>>] :
            objects \in { <<>>, <<small>>, <<small, full>>, <<full, small>> },
            selected \in { {}, {<<"Rig">>}, {<<"FullRig">>}, {<<"Rig">>, <<"FullRig">>} },
            apply \in BOOLEAN }

\* the scenes an import of `file` is run in: every scene for the MESH08 files
\* of one stored weight triple, the scene without objects for all files
MshScenesFor(file) ==
    { scene \in MshScenes :
         \/ scene.objects = <<>> /\ scene.selected = {} /\ ~scene.apply_to_armature_in_selected
         \/ /\ \A n \in scene.selected :
                   \E k \in 1..Len(scene.objects) : scene.objects[k].name = n
            /\ (~scene.apply_to_armature_in_selected => scene.selected = {})
            /\ file.is_mesh08
            /\ Len(file.objects) = 1
            /\ file.objects[1].vertices # <<>>
            /\ file.objects[1].vertices[1].read_weights = <<500000, 300000, 100000>> }

\* lines 429-436: the armatures of the selection, in scene order
SelectedArmatures(scene) ==
    SelectSeq(scene.objects,
              LAMBDA o : o.type = "ARMATURE" /\ o.name \in scene.selected)

\* lines 468-486: with no armature from the selection, the first armature of
\* the scene that has all the bones of list_of_bones_used; an armature from
\* the selection is kept if it has them all
TargetArmature(scene, selected_armature, list_of_bones_used) ==
    LET BoneNames(o) == {o.bones[b].name : b \in 1..Len(o.bones)}
        compatible == SelectSeq(scene.objects,
                          LAMBDA o : o.type = "ARMATURE"
                                       /\ list_of_bones_used \subseteq BoneNames(o))
    IN IF selected_armature = NoArmature
          THEN IF compatible = <<>> THEN NoArmature ELSE compatible[1].name
          ELSE IF \E k \in 1..Len(scene.objects) :
                     /\ scene.objects[k].name = selected_armature
                     /\ list_of_bones_used \subseteq BoneNames(scene.objects[k])
                  THEN selected_armature
                  ELSE NoArmature

(***************************************************************************)
(* MSH import as a state machine                                           *)
(***************************************************************************)
\* the export side while an import runs
ExportIdle ==
    /\ obj = EmptyObject(<<"None">>, INVALID_NAME)
    /\ mesh_export_format = "MESH08"
    /\ material_polygon_groups = <<>>
    /\ group_pos = 0
    /\ grp = NoGroup
    /\ split_number = 0
    /\ exported = <<>>

InitImport ==
    /\ op = "import"
    /\ pc = "start"
    /\ msh_file \in ImportInputs
    /\ ImportIdle
    /\ ExportIdle
    /\ ani_scene \in MshScenesFor(msh_file)
    /\ AniIdle

\* lines 427-489: the armature of the selection is taken (two of them end the
\* import), the file is opened, the variant selected, the object count read
\* and the target armature settled; list_of_bones_used is the empty set of
\* line 442 at that time
OpenFile ==
    /\ op = "import" /\ pc = "start"
    /\ LET selected == IF ani_scene.apply_to_armature_in_selected
                          THEN SelectedArmatures(ani_scene)
                          ELSE <<>>
           selected_armature == IF selected = <<>> THEN NoArmature ELSE selected[1].name
           mesh_type == DecodeAsciiIgnore(ReadMagic(msh_file.head))
           offset == IF mesh_type = MAGIC THEN 6 ELSE 0
       IN IF Len(selected) > 1
             THEN /\ pc' = "cancelled"
                  /\ UNCHANGED <<is_mesh08, count_offset, object_amount, target_armature>>
             ELSE /\ is_mesh08' = (mesh_type = MAGIC)
                  /\ count_offset' = offset
                  /\ IF Len(msh_file.head) < offset + 2
                        THEN /\ pc' = "failed"
                             /\ target_armature' = selected_armature
                             /\ UNCHANGED object_amount
                        ELSE /\ pc' = "objects"
                             /\ object_amount' = ReadUShort(msh_file.head, offset)
                             /\ target_armature' =
                                   TargetArmature(ani_scene, selected_armature, {})
    /\ UNCHANGED <<op, msh_file, object_num, created_objects, msh_written,
                   export_vars, ani_vars>>

\* one pass of `for object_num in range(object_amount)`, MESH08 branch
ImportMesh08Object ==
    /\ op = "import" /\ pc = "objects"
    /\ is_mesh08
    /\ object_num < object_amount
    /\ object_num < Len(msh_file.objects)
    /\ LET fo == msh_file.objects[object_num + 1]
           r == ReadMesh08(fo)
       IN IF r.failed
             THEN pc' = "failed" /\ UNCHANGED <<object_num, created_objects>>
             ELSE /\ created_objects' = Append(created_objects, CreatedObject(fo, r))
                  /\ object_num' = object_num + 1
                  /\ pc' = pc
    /\ UNCHANGED <<op, msh_file, is_mesh08, count_offset, object_amount, msh_written,
                   target_armature, export_vars, ani_vars>>

\* one pass of `for object_num in range(object_amount)`, legacy branch
ImportLegacyObject ==
    /\ op = "import" /\ pc = "objects"
    /\ ~is_mesh08
    /\ object_num < object_amount
    /\ object_num < Len(msh_file.objects)
    /\ LET fo == msh_file.objects[object_num + 1]
           r == ReadLegacy(fo)
       IN IF r.failed
             THEN pc' = "failed" /\ UNCHANGED <<object_num, created_objects>>
             ELSE /\ created_objects' = Append(created_objects, CreatedObject(fo, r))
                  /\ object_num' = object_num + 1
                  /\ pc' = pc
    /\ UNCHANGED <<op, msh_file, is_mesh08, count_offset, object_amount, msh_written,
                   target_armature, export_vars, ani_vars>>

\* a pass of the loop that finds the file exhausted: the reads of lines 496-513
\* come back short and unpacking them raises
ReadPastEnd ==
    /\ op = "import" /\ pc = "objects"
    /\ object_num < object_amount
    /\ object_num >= Len(msh_file.objects)
    /\ pc' = "failed"
    /\ UNCHANGED <<op, import_vars, export_vars, ani_vars>>

\* lines 793-816: the loop is over, every created mesh gets an Armature
\* modifier on the target armature, parents are assigned and the view updated
FinishImport ==
    /\ op = "import" /\ pc = "objects"
    /\ object_num = object_amount
    /\ created_objects' =
          [k \in 1..Len(created_objects) |->
              IF target_armature # NoArmature /\ created_objects[k].has_mesh
                 THEN [created_objects[k] EXCEPT !.armature_modifier = target_armature]
                 ELSE created_objects[k]]
    /\ pc' = "done"
    /\ UNCHANGED <<op, msh_file, object_num, is_mesh08, count_offset, object_amount,
                   msh_written, target_armature, export_vars, ani_vars>>

NextImport ==
    OpenFile \/ ImportMesh08Object \/ ImportLegacyObject \/ ReadPastEnd \/ FinishImport

SpecImport == InitImport /\ [][NextImport]_vars

(***************************************************************************)
(* Export of the objects an import created (msh.py 1063-1131, 1385-1411)   *)
(***************************************************************************)
\* the triangles of a created mesh that keep three different vertices once
\* remove_doubles has merged equal positions; the others are dissolved
FacesLeft(o) ==
    SelectSeq(o.triangles,
              LAMBDA t : Cardinality({o.vertices[t[1] + 1], o.vertices[t[2] + 1],
                                      o.vertices[t[3] + 1]}) = 3)

\* how many sub-objects __export_mesh adds for a created object: one for an
\* EMPTY (line 1364), one per material group for a MESH (line 1161), none for a
\* MESH without polygons (line 1149)
SubObjectsOf(o) == IF ~o.has_mesh THEN 1 ELSE IF FacesLeft(o) # <<>> THEN 1 ELSE 0

\* lines 1396-1411: the header fields written for a sub-object of an object
\* without parent; source is the position of the object in the imported file
WrittenHeader(o, source) ==
    [source |-> source,
     name |-> o.name,
     world_matrix |-> o.msh_bind_matrix,
     local_matrix |-> o.msh_bind_matrix,
     third_matrix |-> "identity",
     unknown_float3_1 |-> <<0, 0, 0>>,
     unknown_flags_1 |-> <<1, 256>>,
     weight_model_type |-> 1,
     unknown_float3_2 |-> <<0, 0, 0>>,
     unknown_float_1 |-> 0,
     reserved31 |-> "zeros"]

RECURSIVE WrittenHeaders(_, _)
WrittenHeaders(objects, k) ==
    IF k > Len(objects) THEN <<>>
    ELSE (IF SubObjectsOf(objects[k]) = 1 THEN << WrittenHeader(objects[k], k) >> ELSE <<>>)
         \o WrittenHeaders(objects, k + 1)

\* the collection the import filled is exported again
ExportCreated ==
    /\ op = "import" /\ pc = "done"
    /\ created_objects # <<>>
    /\ pc' = "written"
    /\ msh_written' = WrittenHeaders(created_objects, 1)
    /\ UNCHANGED <<op, msh_file, object_num, created_objects, is_mesh08, count_offset,
                   object_amount, target_armature, export_vars, ani_vars>>

NextRoundTrip == NextImport \/ ExportCreated

SpecRoundTrip == InitImport /\ [][NextRoundTrip]_vars

(***************************************************************************)
(* Claims about MSH import                                                 *)
(***************************************************************************)
\* <<k, i>>: vertex i of the k-th created object, read from a weighted MESH08 object
WeightedMesh08Vertices ==
    IF op = "import" /\ msh_file.is_mesh08
       THEN UNION { {<<k, i>> : i \in 1..Len(created_objects[k].weights)} :
                      k \in 1..Len(created_objects) }
       ELSE {}

StoredTriple(ki) == msh_file.objects[ki[1]].vertices[ki[2]].read_weights

ImportedWeights(ki) == created_objects[ki[1]].weights[ki[2]]

\* C6: in MESH08 import of a weighted object the fourth weight of a vertex
\* with stored weights w1, w2, w3 of sum s is 1 - s when s < 1 - 1e-5 and 0
\* otherwise; stored weights [0.5, 0.3, 0.1] give a fourth weight of 0.1.
C6_ImpliedFourthWeight ==
    \A ki \in WeightedMesh08Vertices :
        LET w == StoredTriple(ki)
            s == w[1] + w[2] + w[3]
        IN /\ Len(ImportedWeights(ki)) = 4
           /\ ImportedWeights(ki)[4] = IF s < ONE - 10 THEN ONE - s ELSE 0
           /\ w = <<500000, 300000, 100000>> => ImportedWeights(ki)[4] = 100000

C6_Witness ==
    /\ \E ki \in WeightedMesh08Vertices :
          /\ StoredTriple(ki) = <<500000, 300000, 100000>>
          /\ ImportedWeights(ki) = <<500000, 300000, 100000, 100000>>
    /\ pc = "done"

\* C7: in MESH08 import a weighted vertex whose three stored weights are all
\* zero gets the weight list [1, 0, 0, 0]: the full weight is on slot 0.
C7_AllZeroFallsBackToFirstSlot ==
    \A ki \in WeightedMesh08Vertices :
        StoredTriple(ki) = <<0, 0, 0>> => ImportedWeights(ki) = <<ONE, 0, 0, 0>>

\* C8: after MESH08 import of a weighted object every vertex has exactly 4
\* weights and they sum to 1.0 within 1e-5, whatever the stored triple.
C8_FourWeightsSumToOne ==
    \A ki \in WeightedMesh08Vertices :
        /\ Len(ImportedWeights(ki)) = 4
        /\ SumSeq(ImportedWeights(ki)) >= ONE - 10
        /\ SumSeq(ImportedWeights(ki)) <= ONE + 10

\* k: the k-th created object, read from a legacy object with vertices
LegacyMeshObjects ==
    IF op = "import" /\ ~msh_file.is_mesh08
       THEN {k \in 1..Len(created_objects) : created_objects[k].has_mesh}
       ELSE {}

\* the lists filled by the loop of lines 673-692 follow the stored corners
UnweldedLists(k) ==
    LET fo == msh_file.objects[k]
        o == created_objects[k]
        T == Len(fo.triangles)
    IN /\ Len(o.vertices) = 3 * T
       /\ Len(o.triangles) = T
       /\ \A i \in 0..(T - 1) :
             /\ o.triangles[i + 1] = <<3 * i, 3 * i + 1, 3 * i + 2>>
             /\ \A n \in 0..2 :
                   LET base == fo.base_vertices[fo.triangles[i + 1].indices[n + 1] + 1]
                   IN /\ o.vertices[3 * i + n + 1] = [blender |-> base.position]
                      /\ o.normals[3 * i + n + 1]
                            = [blender |-> fo.triangles[i + 1].normals[n + 1]]
                      /\ o.uvs[3 * i + n + 1]
                            = <<fo.triangles[i + 1].uvs[n + 1][1],
                                fo.triangles[i + 1].uvs[n + 1][2]>>

\* C10: legacy import of T stored triangles leaves 3*T output vertices,
\* output triangle i is (3i, 3i+1, 3i+2) and output vertex 3i+n has the
\* position of the base vertex referenced by corner n of triangle i and the
\* normal and UV stored for that corner; a triangle whose corners reference
\* one base vertex yields 3 output vertices with one shared position.
C10_UnweldedMesh ==
    \A k \in LegacyMeshObjects :
        /\ UnweldedLists(k)
        /\ created_objects[k].mesh_positions = created_objects[k].vertices

\* C11: MSH import selects the MESH08 variant exactly when the first 6 bytes
\* of the file are the ASCII literal MESH08 and then reads the object count
\* from offset 6; in every other case (short files, bytes outside ASCII) it
\* selects the legacy variant and reads the object count from offset 0.  An
\* import that ends on a selection of two armatures opens no file.
C11_MagicSelectsVariant ==
    (op = "import" /\ pc \notin {"start", "cancelled"}) =>
        LET head == msh_file.head
            starts_with_magic ==
                /\ Len(head) >= 6
                /\ \A i \in 1..6 : head[i] = <<77, 69, 83, 72, 48, 56>>[i]
            offset == IF starts_with_magic THEN 6 ELSE 0
        IN /\ is_mesh08 <=> starts_with_magic
           /\ count_offset = offset
           /\ Len(head) >= offset + 2
                 => object_amount = head[offset + 1] + 256 * head[offset + 2]

C11_Witness ==
    /\ op = "import" /\ pc = "done"
    /\ is_mesh08 /\ count_offset = 6 /\ object_amount = 2
    /\ Len(created_objects) = 2

\* C12: importing an MSH file and exporting the result reproduces the
\* reserved per-object header fields of the original: the two reserved
\* matrices, the unconverted 3-float vectors, the two uint32 flags, the float
\* and the 31 reserved bytes.
C12_ReservedFieldsRoundTrip ==
    (op = "import" /\ pc = "written") =>
        \A h \in 1..Len(msh_written) :
            LET w == msh_written[h]
                r == msh_file.objects[w.source].reserved
            IN /\ w.local_matrix = r.local_matrix
               /\ w.third_matrix = r.third_matrix
               /\ w.unknown_float3_1 = r.unknown_float3_1
               /\ w.unknown_flags_1 = r.unknown_flags_1
               /\ w.unknown_float3_2 = r.unknown_float3_2
               /\ w.unknown_float_1 = r.unknown_float_1
               /\ w.reserved31 = r.reserved31

(***************************************************************************)
(* ANI: values, frames and inputs (ani.py)                                 *)
(*                                                                         *)
(* A rotation or a position is an element of the cyclic group of order 4   *)
(* (0 is the identity rotation and the zero position), a scale is a        *)
(* positive integer (1 is the unit scale).  A track is a list of           *)
(* <<value, tick>> pairs.                                                  *)
(***************************************************************************)

FRAME_SCALE == 160

MaxTargets == 2
MaxFiles == 2

USHORT_MAX == 65535
NAME_FIELD == 100

DataPaths == <<"rotation_quaternion", "location", "scale">>

\* frame = scaled_frame / FRAME_SCALE, a true division: the whole frames and
\* the remaining 160ths
Frame(scaled_frame) ==
    [whole |-> scaled_frame \div FRAME_SCALE, part |-> scaled_frame % FRAME_SCALE]

\* highest_frame < frame
FrameLess(f, g) == f.whole < g.whole \/ (f.whole = g.whole /\ f.part < g.part)

\* a tick that counts keyframes from 1
TickFromOne(frame_number) == (frame_number + 1) * FRAME_SCALE

\* frame_number * FRAME_SCALE
Tick(frame_number) == frame_number * FRAME_SCALE

\* Quaternion.conjugated(): the inverse rotation
Conjugated(q) == (4 - q) % 4

\* Quaternion((-q.w, q.x, q.y, q.z)): the negated conjugate, which is the
\* rotation of the conjugate
FlipW(q) == (4 - q) % 4

\* Utils.get_local_rotation and Utils.get_local_position: a transform in the
\* parent's space expressed relative to the rest transform of the bone
get_local(rest, value) == (value - rest + 4) % 4

\* Utils.get_world_rotation and Utils.get_world_position: the inverse of
\* get_local
get_world(rest, basis) == (rest + basis) % 4

\* the objects the animation is applied to: a mesh and an empty next to an
\* armature that has a bone named like the mesh; a mesh with a material
\* group above the index limit and an empty whose name fills the name field;
\* two armatures; an armature alone.  A bone carries its rest pose
\* (bone_local_rotations, bone_local_positions, bone_absolute_scales).
AniObjectSets ==
    LET AniObject(name, type, name_bytes, material_polygon_counts, bones) ==
            [name |-> name, type |-> type, name_bytes |-> name_bytes,
             material_polygon_counts |-> material_polygon_counts, bones |-> bones]
        AniBone(name, rotation, location, scale) ==
            [name |-> name, name_bytes |-> 5,
             rest |-> [rotation_quaternion |-> rotation, location |-> location,
                       scale |-> scale]]
        Rig == AniObject(<<"Rig">>, "ARMATURE", 3, <<>>,
                         << AniBone(<<"Bip01">>, 1, 2, 1), AniBone(<<"Body">>, 0, 0, 1) >>)
    IN { << AniObject(<<"Body">>, "MESH", 4, << <<0, 3>> >>, <<>>),
            AniObject(<<"Dummy">>, "EMPTY", 5, <<>>, <<>>),
            Rig >>,
         << AniObject(<<"Body">>, "MESH", 4, << <<0, 6>>, <<2, 65538>> >>, <<>>),
            AniObject(<<"Dummy">>, "EMPTY", NAME_FIELD, <<>>, <<>>) >>,
         << Rig,
            AniObject(<<"Rig2">>, "ARMATURE", 4, <<>>, << AniBone(<<"Bip01">>, 1, 2, 1) >>) >>,
         << Rig >> }

\* the targets a file can hold: name, the two span fields and the four
\* tracks
AniTargets ==
    LET AniTarget(name, frame_amount, frame_counts, rotation, position, scale, unknown) ==
            [name |-> name, frame_amount |-> frame_amount, frame_counts |-> frame_counts,
             rotation |-> rotation, position |-> position, scale |-> scale,
             unknown |-> unknown]
    IN { AniTarget(<<"Body">>, 1, 160, << <<1, 0>>, <<2, 160>> >>,
                   << <<0, 0>>, <<1, 160>> >>, << <<1, 0>>, <<1, 160>> >>, <<>>),
         AniTarget(<<"Bip01">>, 5, 9999, << <<3, 0>>, <<1, 800>> >>, <<>>, <<>>,
                   << <<1, 0>> >>),
         AniTarget(<<"Bip01">>, 0, 0, <<>>, <<>>, <<>>, <<>>),
         AniTarget(<<"Bip01">>, 1, 160, << <<0, 0>>, <<2, 160>> >>, << <<1, 160>> >>,
                   << <<2, 0>> >>, <<>>),
         AniTarget(<<"Ghost">>, 1, 160, << <<1, 0>> >>, <<>>, <<>>, <<>>),
         AniTarget(<<"Dummy">>, 2, 320, <<>>, << <<2, 80>>, <<1, 320>> >>, <<>>, <<>>),
         AniTarget(<<"Rig">>, 1, 160, <<>>, << <<1, 160>> >>, <<>>, <<>>),
         AniTarget(<<"Dummy">>, 410, 64, <<>>, << <<1, 65600>> >>, <<>>, <<>>) }

\* the selected files: one file of up to MaxTargets targets, or up to
\* MaxFiles files out of a file of a mesh and a file of an unknown name, each
\* of them whole or ending early
AniBatches ==
    LET one == { << [truncated |-> FALSE, targets |-> AsList(targets)] >> :
                   targets \in UNION { [1..n -> AniTargets] : n \in 0..MaxTargets } }
        BatchFiles ==
            { [truncated |-> truncated, targets |-> << target >>] :
                truncated \in BOOLEAN,
                target \in { t \in AniTargets :
                               /\ t.frame_amount = 1
                               /\ t.name \in { <<"Body">>, <<"Ghost">> } } }
    IN one \cup { AsList(files) :
                    files \in UNION { [1..n -> BatchFiles] : n \in 2..MaxFiles } }

InitAni ==
    /\ op = "ani"
    /\ pc = "importing"
    /\ \E objects \in AniObjectSets, ignore_not_found \in BOOLEAN, files \in AniBatches :
          ani_scene = [objects |-> objects, ignore_not_found |-> ignore_not_found,
                       files |-> files,
                       animation_data |-> [k \in 1..Len(objects) |->
                                              [present |-> FALSE, action |-> 0]],
                       frame_current |-> 3]
    /\ AniIdle
    /\ msh_file = NoFile
    /\ ImportIdle
    /\ ExportIdle

(***************************************************************************)
(* ANI import (ani.py 56-313): one step per file of the batch              *)
(***************************************************************************)

\* line 156
ArmatureObjects(objects) == SelectSeq(objects, LAMBDA o : o.type = "ARMATURE")

\* target_armature.data.bones (lines 161-162, 179-180): no bone without an
\* armature
TargetBones(objects) ==
    IF ArmatureObjects(objects) = <<>> THEN <<>> ELSE ArmatureObjects(objects)[1].bones

\* a resolution that looks at the bones first
ResolveBonesFirst(objects, object_name) ==
    IF \E b \in 1..Len(TargetBones(objects)) : TargetBones(objects)[b].name = object_name
    THEN "bone"
    ELSE IF \E k \in 1..Len(objects) : objects[k].name = object_name
    THEN "object"
    ELSE "none"

\* lines 171-185: the objects of the collection first, the bones of the
\* armature only for a name that no object has
Resolve(objects, object_name) ==
    IF \E k \in 1..Len(objects) : objects[k].name = object_name
    THEN "object"
    ELSE IF \E b \in 1..Len(TargetBones(objects)) : TargetBones(objects)[b].name = object_name
    THEN "bone"
    ELSE "none"

\* found_objects and found_bones: the indices i of the targets, in file order
Found(objects, targets, kind) ==
    SelectSeq(AsList([i \in 1..Len(targets) |-> i - 1]),
              LAMBDA i : Resolve(objects, targets[i + 1].name) = kind)

\* the value keyed on an object (lines 225, 235, 245)
ObjectBasis(data_path, value) ==
    IF data_path = "rotation_quaternion" THEN Conjugated(value) ELSE value

\* the value keyed on a pose bone (lines 269, 283, 296)
BoneBasis(data_path, rest, value) ==
    IF data_path = "rotation_quaternion"
    THEN get_local(rest.rotation_quaternion, FlipW(value))
    ELSE IF data_path = "location" THEN get_local(rest.location, value)
    ELSE value

\* an importer that keys no default
NoDefaults(name, index, data_path, track) == <<>>

\* lines 260-262, 275-277, 290-292: the keyframe at frame 0 of a bone track
\* without keyframes
BoneDefaults(name, index, data_path, track) ==
    IF Len(track) = 0
    THEN << [kind |-> "bone", name |-> name, index |-> index, data_path |-> data_path,
             count |-> -1, frame |-> Frame(0),
             value |-> IF data_path = "scale" THEN 1 ELSE 0] >>
    ELSE <<>>

\* the keyframe_insert calls of one track, in the order of the file; the
\* rest pose of a bone is the one the skeleton data holds under its name
TrackInserts(objects, kind, name, index, data_path, track) ==
    LET bones == TargetBones(objects)
        rest == bones[CHOOSE b \in 1..Len(bones) : bones[b].name = name].rest
    IN (IF kind = "bone" THEN BoneDefaults(name, index, data_path, track) ELSE <<>>)
         \o AsList([c \in 1..Len(track) |->
                [kind |-> kind, name |-> name, index |-> index, data_path |-> data_path,
                 count |-> c - 1, frame |-> Frame(track[c][2]),
                 value |-> IF kind = "bone"
                           THEN BoneBasis(data_path, rest, track[c][1])
                           ELSE ObjectBasis(data_path, track[c][1])]])

RECURSIVE FoundInserts(_, _, _, _, _)
\* lines 206-248 and 257-302: for every found target its rotation, location
\* and scale keyframes
FoundInserts(objects, targets, kind, found, n) ==
    IF n > Len(found) THEN <<>>
    ELSE LET index == found[n]
             t == targets[index + 1]
         IN TrackInserts(objects, kind, t.name, index, DataPaths[1], t.rotation)
              \o TrackInserts(objects, kind, t.name, index, DataPaths[2], t.position)
              \o TrackInserts(objects, kind, t.name, index, DataPaths[3], t.scale)
              \o FoundInserts(objects, targets, kind, found, n + 1)

RECURSIVE HighestFrame(_, _)
\* highest_frame (lines 202, 221-222): the defaults of the bones do not
\* raise it
HighestFrame(inserts, n) ==
    IF n > Len(inserts) THEN Frame(0)
    ELSE LET rest == HighestFrame(inserts, n + 1)
         IN IF FrameLess(rest, inserts[n].frame) THEN inserts[n].frame ELSE rest

\* lines 196-305: the action of one file, its slots (one per object it was
\* assigned to), its keyframes and its frame range
CreatedAction(objects, targets, source) ==
    LET found_objects == Found(objects, targets, "object")
        found_bones == Found(objects, targets, "bone")
        inserts == FoundInserts(objects, targets, "object", found_objects, 1)
                      \o FoundInserts(objects, targets, "bone", found_bones, 1)
    IN [source |-> source,
        found_objects |-> found_objects,
        found_bones |-> found_bones,
        slots |-> LET owners == AsList([n \in 1..Len(found_objects) |->
                                           targets[found_objects[n] + 1].name])
                                  \o (IF found_bones = <<>> THEN <<>>
                                      ELSE << ArmatureObjects(objects)[1].name >>)
                      first == SelectSeq(AsList([n \in 1..Len(owners) |-> n]),
                                         LAMBDA n : \A m \in 1..(n - 1) : owners[m] # owners[n])
                  IN AsList([n \in 1..Len(first) |-> owners[first[n]]]),
        inserts |-> inserts,
        frame_range |-> <<Frame(0), HighestFrame(inserts, 1)>>]

\* what the loop body does with one file: "skipped" (continue), "cancelled"
\* (return {"CANCELLED"}), "crashed" (an exception outside the try blocks)
\* or "created"
ImportOutcome(scene, file) ==
    IF file.truncated THEN "skipped"
    ELSE IF Len(ArmatureObjects(scene.objects)) > 1 THEN "cancelled"
    ELSE IF /\ ~scene.ignore_not_found
            /\ \E i \in 1..Len(file.targets) :
                  Resolve(scene.objects, file.targets[i].name) = "none"
    THEN "cancelled"
    ELSE IF file.targets = <<>> THEN "crashed"
    ELSE "created"

\* lines 131-134 (except: continue)
SkipAniFile ==
    /\ op \in {"ani", "ani_again"}
    /\ pc = "importing"
    /\ file_num < Len(ani_scene.files)
    /\ ImportOutcome(ani_scene, ani_scene.files[file_num + 1]) = "skipped"
    /\ file_num' = file_num + 1
    /\ attempted' = attempted \cup {file_num + 1}
    /\ UNCHANGED <<op, pc, ani_scene, actions, action_num, export_lists, before_export, disk>>
    /\ UNCHANGED <<export_vars, import_vars>>

\* lines 157-159 and 187-189 (return {"CANCELLED"}), line 193 (frame_amount[0]
\* of a file without targets)
CancelAniImport ==
    /\ op \in {"ani", "ani_again"}
    /\ pc = "importing"
    /\ file_num < Len(ani_scene.files)
    /\ ImportOutcome(ani_scene, ani_scene.files[file_num + 1]) \in {"cancelled", "crashed"}
    /\ pc' = ImportOutcome(ani_scene, ani_scene.files[file_num + 1])
    /\ attempted' = attempted \cup {file_num + 1}
    /\ UNCHANGED <<op, ani_scene, file_num, actions, action_num, export_lists, before_export, disk>>
    /\ UNCHANGED <<export_vars, import_vars>>

\* lines 195-305
CreateAniAction ==
    /\ op \in {"ani", "ani_again"}
    /\ pc = "importing"
    /\ file_num < Len(ani_scene.files)
    /\ ImportOutcome(ani_scene, ani_scene.files[file_num + 1]) = "created"
    /\ actions' = Append(actions,
                         CreatedAction(ani_scene.objects, ani_scene.files[file_num + 1].targets, file_num + 1))
    /\ ani_scene' =
          LET slots == CreatedAction(ani_scene.objects,
                                     ani_scene.files[file_num + 1].targets,
                                     file_num + 1).slots
          IN [ani_scene EXCEPT !.animation_data =
                 [k \in 1..Len(ani_scene.objects) |->
                     IF ani_scene.objects[k].name \in Range(slots)
                        THEN [present |-> TRUE, action |-> Len(actions) + 1]
                        ELSE @[k]]]
    /\ file_num' = file_num + 1
    /\ attempted' = attempted \cup {file_num + 1}
    /\ UNCHANGED <<op, pc, action_num, export_lists, before_export, disk>>
    /\ UNCHANGED <<export_vars, import_vars>>

\* line 313 (return {"FINISHED"})
FinishAniImport ==
    /\ op \in {"ani", "ani_again"}
    /\ pc = "importing"
    /\ file_num = Len(ani_scene.files)
    /\ pc' = "imported"
    /\ UNCHANGED <<op, ani_scene, file_num, attempted, actions, action_num, export_lists, before_export, disk>>
    /\ UNCHANGED <<export_vars, import_vars>>

(***************************************************************************)
(* ANI export (ani.py 347-731): one step per action                        *)
(*                                                                         *)
(* A value in a file is named by the scene value the converting reader     *)
(* decodes it to.                                                          *)
(***************************************************************************)

\* the value of a property at frame k under an action: the key at the
\* greatest keyed frame up to k (a later keyframe_insert at a frame replaces
\* an earlier one), the first key before all keys, the untouched property
\* without keys
EvaluatedBasis(inserts, kind, name, data_path, k) ==
    LET keys == SelectSeq(inserts, LAMBDA i :
                    i.kind = kind /\ i.name = name /\ i.data_path = data_path)
        at == [whole |-> k, part |-> 0]
        before == SelectSeq(keys, LAMBDA i : ~FrameLess(at, i.frame))
        pool == IF before = <<>> THEN keys ELSE before
        best == CHOOSE n \in 1..Len(pool) : \A m \in 1..Len(pool) :
                    \/ pool[m].frame = pool[n].frame /\ m <= n
                    \/ IF before = <<>> THEN FrameLess(pool[n].frame, pool[m].frame)
                       ELSE FrameLess(pool[m].frame, pool[n].frame)
    IN IF keys = <<>> THEN (IF data_path = "scale" THEN 1 ELSE 0)
       ELSE pool[best].value

\* lines 545-566: matrix_basis of the evaluated object at the frames 0..last
ObjectKeyframes(inserts, name, data_path, last) ==
    AsList([n \in 1..(last + 1) |->
        LET basis == EvaluatedBasis(inserts, "object", name, data_path, n - 1)
        IN IF data_path = "rotation_quaternion" THEN FlipW(basis) ELSE basis])

\* the evaluated pose bone at the frames 1..last, without the rest pose
BoneKeyframesFromOne(inserts, bone, data_path, last) ==
    AsList([n \in 1..last |->
        LET basis == EvaluatedBasis(inserts, "bone", bone.name, data_path, n)
        IN IF data_path = "rotation_quaternion"
           THEN FlipW(get_world(bone.rest.rotation_quaternion, basis))
           ELSE IF data_path = "location" THEN get_world(bone.rest.location, basis)
           ELSE basis])

\* lines 634-665: the rest pose first, then the evaluated pose bone at the
\* frames 1..last
BoneKeyframes(inserts, bone, data_path, last) ==
    AsList([n \in 1..(last + 1) |->
        LET basis == EvaluatedBasis(inserts, "bone", bone.name, data_path, n - 1)
        IN IF n = 1
           THEN (IF data_path = "rotation_quaternion"
                 THEN FlipW(bone.rest.rotation_quaternion)
                 ELSE bone.rest[data_path])
           ELSE IF data_path = "rotation_quaternion"
           THEN FlipW(get_world(bone.rest.rotation_quaternion, basis))
           ELSE IF data_path = "location" THEN get_world(bone.rest.location, basis)
           ELSE basis])

RECURSIVE AniObjectNames(_, _)
\* lines 568-610: the names of a mesh, one per material group or split of a
\* group, and the name of an empty
AniObjectNames(object, g) ==
    IF object.type = "EMPTY" THEN << object.name >>
    ELSE IF g > Len(object.material_polygon_counts) THEN <<>>
    ELSE LET mat_idx == object.material_polygon_counts[g][1]
             indices_count == object.material_polygon_counts[g][2]
             sub_object_base_name ==
                 IF mat_idx = 0 THEN object.name ELSE NameWithSuffix(object.name, mat_idx)
             maximum_split_amount == CeilDiv(indices_count, MAX_INDICES)
         IN (IF indices_count <= MAX_INDICES THEN << sub_object_base_name >>
             ELSE AsList([n \in 1..maximum_split_amount |->
                      IF n = 1 THEN sub_object_base_name
                      ELSE NameWithSuffix(sub_object_base_name, n - 1)]))
               \o AniObjectNames(object, g + 1)

RECURSIVE ExportEntries(_, _, _)
\* lines 502-667: the export lists of an action, slot by slot; ExportEntry
\* is what lines 518-530 and 618-625 append for one name
ExportEntries(objects, action, s) ==
    IF s > Len(action.slots) THEN <<>>
    ELSE LET ExportEntry(kind, name, name_bytes, total, keyframes) ==
                 [kind |-> kind, name |-> name, name_bytes |-> name_bytes,
                  unique_keyframe_counts |-> total,
                  maximum_frames |-> total * FRAME_SCALE,
                  keyframe_counts |-> total + 1,
                  rotation |-> keyframes[1], position |-> keyframes[2],
                  scale |-> keyframes[3],
                  unknown_keyframe_counts |-> 0]
             object == objects[CHOOSE k \in 1..Len(objects) :
                                   objects[k].name = action.slots[s]]
             total_frames == action.frame_range[2].whole
             names == AniObjectNames(object, 1)
             shared == [p \in 1..3 |->
                          ObjectKeyframes(action.inserts, object.name, DataPaths[p],
                                          total_frames)]
         IN (IF object.type = "ARMATURE"
             THEN AsList([b \in 1..Len(object.bones) |->
                      ExportEntry("bone", object.bones[b].name, object.bones[b].name_bytes,
                                  total_frames,
                                  [p \in 1..3 |->
                                     BoneKeyframes(action.inserts, object.bones[b],
                                                   DataPaths[p], total_frames)])])
             ELSE AsList([n \in 1..Len(names) |->
                      ExportEntry("object", names[n],
                                  object.name_bytes + 2 * (Len(names[n]) - Len(object.name)),
                                  total_frames, shared)]))
               \o ExportEntries(objects, action, s + 1)

\* lines 672-708: the targets written before the first value that its field
\* cannot hold; a tick is frame_number * FRAME_SCALE
WrittenTargets(entries) ==
    LET fits(e) == /\ e.name_bytes < NAME_FIELD
                   /\ e.maximum_frames <= USHORT_MAX
                   /\ e.keyframe_counts <= USHORT_MAX
        misfits == { n \in 1..Len(entries) : ~fits(entries[n]) }
        written == IF misfits = {} THEN Len(entries)
                   ELSE (CHOOSE n \in misfits : \A m \in misfits : n <= m) - 1
        Pairs(values) == AsList([n \in 1..Len(values) |-> <<values[n], Tick(n - 1)>>])
    IN AsList([n \in 1..written |->
           [name |-> entries[n].name,
            frame_amount |-> entries[n].unique_keyframe_counts,
            frame_counts |-> entries[n].maximum_frames,
            rotation_count |-> entries[n].keyframe_counts,
            rotation |-> Pairs(entries[n].rotation),
            position_count |-> entries[n].keyframe_counts,
            position |-> Pairs(entries[n].position),
            scale_count |-> entries[n].keyframe_counts,
            scale |-> Pairs(entries[n].scale),
            unknown_count |-> entries[n].unknown_keyframe_counts,
            unknown |-> <<>>]])

\* lines 431-435 and export_action: the next action is exported; an action
\* without linked objects is passed over; an exception of the writer ends
\* the operator and leaves what was written.  The operator may find the
\* animation data of one object removed since the import (cleared).
\* export_action keeps the action of the objects that have animation data
\* (446-457), assigns the exported action to every linked object (468-472),
\* steps the scene through the frames and, when the file is written, sets the
\* old frame and gives back the actions it has kept (710-716).
ExportAniAction ==
    /\ op = "ani"
    /\ pc \in {"imported", "exporting"}
    /\ action_num < Len(actions)
    /\ action_num' = action_num + 1
    /\ \E cleared \in IF pc = "imported"
                         THEN {{}} \cup {{k} : k \in 1..Len(ani_scene.objects)}
                         ELSE {{}} :
       LET action == actions[action_num + 1]
           entries == ExportEntries(ani_scene.objects, action, 1)
           written == WrittenTargets(entries)
           found == [k \in 1..Len(ani_scene.objects) |->
                        IF k \in cleared THEN [present |-> FALSE, action |-> 0]
                        ELSE ani_scene.animation_data[k]]
           action_objects == {k \in 1..Len(ani_scene.objects) :
                                 ani_scene.objects[k].name \in Range(action.slots)}
           old_actions == {k \in action_objects : found[k].present}
           assigned == [k \in 1..Len(ani_scene.objects) |->
                           IF k \in action_objects
                              THEN [present |-> TRUE, action |-> action_num + 1]
                              ELSE found[k]]
           restored == [k \in 1..Len(ani_scene.objects) |->
                           IF k \in old_actions THEN found[k] ELSE assigned[k]]
       IN IF action.slots = <<>>
          THEN /\ pc' = "exporting"
               /\ export_lists' = <<>>
               /\ ani_scene' = [ani_scene EXCEPT !.animation_data = found]
               /\ UNCHANGED <<disk, before_export>>
          ELSE /\ export_lists' = entries
               /\ before_export' = [action |-> action_num + 1,
                                    animation_data |-> found,
                                    frame_current |-> ani_scene.frame_current]
               /\ disk' = Append(disk, [action |-> action_num + 1,
                                        complete |-> Len(written) = Len(entries),
                                        targets |-> written])
               /\ IF Len(written) = Len(entries)
                     THEN /\ pc' = "exporting"
                          /\ ani_scene' = [ani_scene EXCEPT !.animation_data = restored]
                     ELSE /\ pc' = "export_failed"
                          /\ ani_scene' = [ani_scene EXCEPT
                                              !.animation_data = assigned,
                                              !.frame_current = action.frame_range[2].whole]
    /\ UNCHANGED <<op, file_num, attempted, actions>>
    /\ UNCHANGED <<export_vars, import_vars>>

\* line 437 (return {"FINISHED"})
FinishAniExport ==
    /\ op = "ani"
    /\ pc \in {"imported", "exporting"}
    /\ action_num = Len(actions)
    /\ pc' = "exported"
    /\ UNCHANGED <<op, ani_scene, file_num, attempted, actions, action_num, export_lists, before_export, disk>>
    /\ UNCHANGED <<export_vars, import_vars>>

\* the import operator run again, on the files the export left: the files of
\* this second run follow the files of the first run in ani_scene.files
ImportExported ==
    /\ op = "ani"
    /\ pc \in {"exported", "export_failed"}
    /\ disk # <<>>
    /\ op' = "ani_again"
    /\ pc' = "importing"
    /\ ani_scene' = [ani_scene EXCEPT !.files =
                        @ \o AsList([d \in 1..Len(disk) |->
                                       [truncated |-> ~disk[d].complete,
                                        targets |-> disk[d].targets]])]
    /\ UNCHANGED <<file_num, attempted, actions, action_num, export_lists, before_export, disk>>
    /\ UNCHANGED <<export_vars, import_vars>>

NextAni ==
    \/ SkipAniFile
    \/ CancelAniImport
    \/ CreateAniAction
    \/ FinishAniImport
    \/ ExportAniAction
    \/ FinishAniExport
    \/ ImportExported

SpecAni == InitAni /\ [][NextAni]_vars

(***************************************************************************)
(* ANI claims                                                              *)
(***************************************************************************)

\* the pairs <<w, t>> of a target written to disk file d and the target of
\* the same name in the file its action was imported from
RoundTripPairs(d) ==
    LET file == ani_scene.files[actions[disk[d].action].source]
    IN { pair \in (1..Len(disk[d].targets)) \X (1..Len(file.targets)) :
           disk[d].targets[pair[1]].name = file.targets[pair[2]].name }

\* C13: importing an ANI file and exporting the resulting clip writes, for
\* each target, the declared-frame-span value and the secondary span value
\* that the file contained.
C13_SpansRoundTrip ==
    op = "ani" =>
        \A d \in 1..Len(disk) : \A pair \in RoundTripPairs(d) :
            LET w == disk[d].targets[pair[1]]
                t == ani_scene.files[actions[disk[d].action].source].targets[pair[2]]
            IN /\ w.frame_amount = t.frame_amount
               /\ w.frame_counts = t.frame_counts

\* C14: the unknown-scalar keyframe track of each target survives import
\* followed by export unchanged: the same keyframe count and the same
\* (value, tick) pairs.
C14_UnknownTrackRoundTrip ==
    op = "ani" =>
        \A d \in 1..Len(disk) : \A pair \in RoundTripPairs(d) :
            LET w == disk[d].targets[pair[1]]
                t == ani_scene.files[actions[disk[d].action].source].targets[pair[2]]
            IN w.unknown = t.unknown

\* the keyframes of the actions that come from a keyframe of a file:
\* <<a, i, tick>> for keyframe i of action a and the tick stored for it
FileKeyframes ==
    { k \in UNION { { <<a, i>> : i \in 1..Len(actions[a].inserts) } : a \in 1..Len(actions) } :
        actions[k[1]].inserts[k[2]].count >= 0 }

StoredTick(a, i) ==
    LET insert == actions[a].inserts[i]
        target == ani_scene.files[actions[a].source].targets[insert.index + 1]
        track == IF insert.data_path = "rotation_quaternion" THEN target.rotation
                 ELSE IF insert.data_path = "location" THEN target.position
                 ELSE target.scale
    IN track[insert.count + 1][2]

\* C15: ANI export writes the k-th keyframe of every rotation, position and
\* scale track with tick 160*k (k = 0, 1, 2, ...); ANI import maps a stored
\* tick t to frame t/160, so a keyframe exported for frame k is re-imported
\* at exactly frame k (tick 800 decodes to frame 5).
C15_TicksAndFrames ==
    /\ \A d \in 1..Len(disk) : \A w \in 1..Len(disk[d].targets) :
          \A track \in { disk[d].targets[w].rotation, disk[d].targets[w].position,
                         disk[d].targets[w].scale } :
              \A k \in 1..Len(track) : track[k][2] = 160 * (k - 1)
    /\ \A k \in FileKeyframes :
          LET frame == actions[k[1]].inserts[k[2]].frame
              t == StoredTick(k[1], k[2])
          IN /\ frame.whole * 160 + frame.part = t
             /\ frame.part \in 0..159
             /\ t = 800 => frame = [whole |-> 5, part |-> 0]
             /\ actions[k[1]].source > Len(ani_scene.files) - Len(disk)
                   /\ op = "ani_again"
                   => frame = [whole |-> actions[k[1]].inserts[k[2]].count, part |-> 0]

\* a keyframe written for frame 5 at tick 800 came back at frame 5
C15_Witness ==
    /\ op = "ani_again"
    /\ \E k \in FileKeyframes :
          /\ actions[k[1]].source > Len(ani_scene.files) - Len(disk)
          /\ StoredTick(k[1], k[2]) = 800
          /\ actions[k[1]].inserts[k[2]].count = 5
          /\ actions[k[1]].inserts[k[2]].frame.whole = 5

\* the bone targets of the actions: <<a, index>> for index in found_bones of
\* action a
BoneTargets ==
    UNION { { <<a, actions[a].found_bones[n]>> : n \in 1..Len(actions[a].found_bones) } :
              a \in 1..Len(actions) }

\* the keyframes that action a holds for target index and a data path
KeyframesOf(a, index, data_path) ==
    SelectSeq(actions[a].inserts, LAMBDA i :
        i.kind = "bone" /\ i.index = index /\ i.data_path = data_path)

\* C16: after a successful ANI import every bone that was resolved as a
\* target has at least one rotation, one position and one scale keyframe:
\* for each of the three tracks without keyframes in the file there is one
\* keyframe at frame 0 holding the identity rotation, the zero position or
\* the unit scale, and there is no such default for a track with keyframes.
C16_BoneDefaults ==
    \A b \in BoneTargets :
        LET target == ani_scene.files[actions[b[1]].source].targets[b[2] + 1]
            Checked(track, data_path, default) ==
                LET keyframes == KeyframesOf(b[1], b[2], data_path)
                IN /\ Len(keyframes) >= 1
                   /\ track = <<>> =>
                         /\ Len(keyframes) = 1
                         /\ keyframes[1].frame = [whole |-> 0, part |-> 0]
                         /\ keyframes[1].value = default
                   /\ track # <<>> =>
                         /\ Len(keyframes) = Len(track)
                         /\ \A n \in 1..Len(keyframes) : keyframes[n].count = n - 1
        IN /\ Checked(target.rotation, "rotation_quaternion", 0)
           /\ Checked(target.position, "location", 0)
           /\ Checked(target.scale, "scale", 1)

\* a bone target with rotation keyframes and without position keyframes was
\* imported
C16_Witness ==
    /\ pc = "imported"
    /\ \E b \in BoneTargets :
          LET target == ani_scene.files[actions[b[1]].source].targets[b[2] + 1]
          IN /\ target.rotation # <<>>
             /\ target.position = <<>>
             /\ Len(KeyframesOf(b[1], b[2], "location")) = 1

\* the name is the name of an object the animation is applied to
NamesObject(object_name) ==
    \E k \in 1..Len(ani_scene.objects) : ani_scene.objects[k].name = object_name

\* the name is the name of a bone of the armature among these objects
NamesBone(object_name) ==
    \E k \in 1..Len(ani_scene.objects) :
        /\ ani_scene.objects[k].type = "ARMATURE"
        /\ \A j \in 1..(k - 1) : ani_scene.objects[j].type # "ARMATURE"
        /\ \E b \in 1..Len(ani_scene.objects[k].bones) :
              ani_scene.objects[k].bones[b].name = object_name

\* the files that name a target which is neither an object nor a bone
FilesWithUnknownName ==
    { f \in 1..Len(ani_scene.files) :
        \E i \in 1..Len(ani_scene.files[f].targets) :
            LET object_name == ani_scene.files[f].targets[i].name
            IN ~NamesObject(object_name) /\ ~NamesBone(object_name) }

\* C17: each target name is resolved against the objects first and the bones
\* of the armature second: a name of both an object and a bone is treated as
\* an object only, every target index is in at most one of the object list
\* and the bone list, and a name of neither is skipped when ignore_not_found
\* is set and otherwise cancels the import before an action is created for
\* the file.
C17_ObjectsBeforeBones ==
    /\ \A a \in 1..Len(actions) :
          LET targets == ani_scene.files[actions[a].source].targets
          IN \A i \in 1..Len(targets) :
                /\ (i - 1) \in Range(actions[a].found_objects)
                      <=> NamesObject(targets[i].name)
                /\ (i - 1) \in Range(actions[a].found_bones)
                      <=> (~NamesObject(targets[i].name) /\ NamesBone(targets[i].name))
                /\ ~((i - 1) \in Range(actions[a].found_objects)
                       /\ (i - 1) \in Range(actions[a].found_bones))
    /\ \A a \in 1..Len(actions) :
          actions[a].source \in FilesWithUnknownName => ani_scene.ignore_not_found
    /\ \A f \in FilesWithUnknownName :
          /\ f \in attempted
          /\ ~ani_scene.ignore_not_found
          /\ ~ani_scene.files[f].truncated
          => pc = "cancelled" /\ file_num = f - 1

\* a target named like both an object and a bone was imported next to a
\* target that is a bone only
C17_Witness ==
    \E a \in 1..Len(actions) :
        LET targets == ani_scene.files[actions[a].source].targets
        IN /\ \E i \in 1..Len(targets) :
                 /\ NamesObject(targets[i].name) /\ NamesBone(targets[i].name)
                 /\ (i - 1) \in Range(actions[a].found_objects)
           /\ actions[a].found_bones # <<>>

\* C18: in a batch of several files a failure while processing one file
\* (a truncated file, more than one armature, an unresolved name with
\* ignore_not_found off) never keeps the remaining files from being
\* processed: when the operator ends every file was attempted.
C18_BatchContinues ==
    pc \in {"imported", "cancelled", "crashed"} =>
        attempted = 1..Len(ani_scene.files)

\* C19: whenever an export fails after its output file was opened for
\* writing (a name that does not fit its fixed-width field, a value that
\* does not fit its integer field), no file remains at the export path when
\* the operation ends.
C19_NoFileAfterFailedExport ==
    pc = "export_failed" =>
        \A d \in 1..Len(disk) : disk[d].action # action_num

\* the pose of an exported target evaluated at frame k, as the file stores
\* it: the basis of the object a name was made from (the first part of the
\* name); the basis of a bone applied to its rest pose
EvaluatedPose(e, data_path, k) ==
    LET owner == IF e.kind = "object" THEN << e.name[1] >> ELSE e.name
        basis == EvaluatedBasis(actions[action_num].inserts, e.kind, owner, data_path, k)
        bone == CHOOSE bone \in UNION { Range(ani_scene.objects[o].bones) :
                                          o \in 1..Len(ani_scene.objects) } :
                    bone.name = e.name
        world == IF e.kind = "object" \/ data_path = "scale" THEN basis
                 ELSE (bone.rest[data_path] + basis) % 4
    IN IF data_path = "rotation_quaternion" THEN (4 - world) % 4 ELSE world

\* C20: ANI export stores, for every exported target whether object or
\* bone, the pose evaluated at frame k as the keyframe at tick 160*k for
\* every integer k from 0 to the last frame of the clip; the keyframe at
\* tick 0 of a bone is the pose evaluated at frame 0.
C20_EveryFrameEvaluated ==
    (op = "ani" /\ export_lists # <<>>) =>
        \A n \in 1..Len(export_lists) :
            LET e == export_lists[n]
                last == actions[action_num].frame_range[2].whole
                Checked(keyframes, data_path) ==
                    /\ Len(keyframes) = last + 1
                    /\ \A k \in 0..last :
                          keyframes[k + 1] = EvaluatedPose(e, data_path, k)
            IN /\ Checked(e.rotation, "rotation_quaternion")
               /\ Checked(e.position, "location")
               /\ Checked(e.scale, "scale")

(***************************************************************************)
(* Claims about both MSH variants and both formats                         *)
(***************************************************************************)

\* C21: in both MSH variants the UV that import puts on a vertex is (u, -v)
\* for a stored (u, v): the v coordinate is flipped relative to storage in
\* the legacy variant as well as in MESH08.
C21_ImportFlipsV ==
    (op = "import" /\ pc = "done") =>
        \A k \in 1..Len(created_objects) :
            LET fo == msh_file.objects[k]
                o == created_objects[k]
            IN IF msh_file.is_mesh08
               THEN \A i \in 1..Len(fo.vertices) :
                       o.uvs[i] = <<fo.vertices[i].uv[1], -fo.vertices[i].uv[2]>>
               ELSE \A i \in 1..Len(fo.triangles) : \A n \in 1..3 :
                       o.uvs[3 * (i - 1) + n]
                          = <<fo.triangles[i].uvs[n][1], -fo.triangles[i].uvs[n][2]>>

\* C22: a MESH08 export succeeds in writing the magic, and the file it leaves
\* starts with the 6 bytes of "MESH08" followed by the uint16 object count,
\* the magic being written through the fixed-width text writer with a field
\* width of 6.
C22_Mesh08MagicWritten ==
    (op = "export" /\ mesh_export_format = "MESH08"
        /\ pc \in {"written", "write_failed"}) =>
        /\ pc = "written"
        /\ Len(disk) = 1
        /\ Take(disk[1].head, 6) = MAGIC
        /\ ReadUShort(disk[1].head, 6) = Len(exported)

\* C23: for either variant the bytes the export writes for an object (header,
\* vertex block, triangle block, bone/weight block) are as many as the import
\* consumes for it from the amounts written, block by block, so that after an
\* object the reader stands at the name of the next object or at the end of
\* the file.
C23_WrittenBytesAreConsumed ==
    (op = "export" /\ pc = "collected") =>
        \A k \in 1..Len(exported) :
            WrittenBytes(mesh_export_format, exported[k])
               = ConsumedBytes(mesh_export_format = "MESH08",
                               WrittenObject(mesh_export_format, exported[k]))

\* a parented legacy sub-object with vertices: its weight records are not
\* written and the header announces none
C23_Witness ==
    /\ op = "export" /\ pc = "collected"
    /\ mesh_export_format = "STANDARD"
    /\ exported # <<>>
    /\ exported[1].parent_name # INVALID_NAME
    /\ exported[1].vertex_amount > 0
    /\ exported[1].weight_data # <<>>
    /\ WrittenObject(mesh_export_format, exported[1]).weight_amount = 0

\* the sub-objects a MESH08 export has collected, as the import reads them
Mesh08Written ==
    IF op = "export" /\ pc = "collected" /\ mesh_export_format = "MESH08"
       THEN [k \in 1..Len(exported) |-> WrittenObject("MESH08", exported[k])]
       ELSE <<>>

\* C24: a MESH08 export writes the unique bone list of N names as ceil(N/4)
\* groups of up to 4 names, each padded to 4 name slots, and the import
\* rebuilds from these groups a flattened list equal to the exported list in
\* the same order, so that index i denotes the same bone for 0 <= i < N.
C24_BoneListRoundTrip ==
    \A k \in 1..Len(Mesh08Written) :
        LET N == Len(exported[k].unique_bones_list)
            groups == Mesh08Written[k].bone_groups
            flattened == UniqueBoneNames(groups, 1, <<>>)
        IN /\ Len(groups) = CeilDiv(N, 4)
           /\ \A g \in 1..Len(groups) :
                 /\ groups[g].bone_amount \in 1..4
                 /\ Len(groups[g].bone_names) = 4
           /\ flattened = exported[k].unique_bones_list
           /\ \A i \in 0..(N - 1) : flattened[i + 1] = exported[k].unique_bones_list[i + 1]

\* a list of 5 names: a full group and a group of one name and three empty slots
C24_Witness ==
    \E k \in 1..Len(Mesh08Written) :
        /\ Len(exported[k].unique_bones_list) = 5
        /\ Len(Mesh08Written[k].bone_groups) = 2
        /\ Mesh08Written[k].bone_groups[2].bone_amount = 1
        /\ Mesh08Written[k].bone_groups[2].bone_names[2] = INVALID_NAME
        /\ UniqueBoneNames(Mesh08Written[k].bone_groups, 1, <<>>)[5]
              = exported[k].unique_bones_list[5]

\* C29: every bone index a MESH08 export writes for a weighted mesh is read
\* back by the import as an index inside the flattened bone name list, also
\* for a vertex with fewer than 4 influences, whose unused slots are written
\* as the signed 16-bit -1: the import of an exported MESH08 object never
\* fails on a bone name lookup.
C29_WrittenBoneIndicesResolve ==
    \A k \in 1..Len(Mesh08Written) :
        Mesh08Written[k].weight_amount > 0 =>
            /\ \A i \in 1..Len(Mesh08Written[k].vertices) : \A slot \in 1..4 :
                  Mesh08Written[k].vertices[i].bone_indices[slot]
                     < Len(UniqueBoneNames(Mesh08Written[k].bone_groups, 1, <<>>))
            /\ ~ReadMesh08(Mesh08Written[k]).failed

\* the bone names of the armature called `name` in the scene of the import
ArmatureBoneNames(name) ==
    UNION { {ani_scene.objects[k].bones[b].name : b \in 1..Len(ani_scene.objects[k].bones)} :
              k \in {j \in 1..Len(ani_scene.objects) : ani_scene.objects[j].name = name} }

\* the bone names the vertex weights of the created objects refer to
BonesUsed ==
    UNION { UNION { Range(created_objects[k].weight_bones[i]) :
                      i \in 1..Len(created_objects[k].weight_bones) } :
              k \in 1..Len(created_objects) }

\* C28: whenever an MSH import ends with a target armature attached to the
\* mesh objects it created, that armature has every bone name the vertex
\* weights refer to; an armature lacking one of them is never chosen, be it
\* found in the scene or taken from the selection.
C28_ArmatureHasUsedBones ==
    (op = "import" /\ pc = "done") =>
        \A k \in 1..Len(created_objects) :
            created_objects[k].armature_modifier # NoArmature =>
                BonesUsed \subseteq ArmatureBoneNames(created_objects[k].armature_modifier)

(***************************************************************************)
(* The names of one object in the MSH file and in the ANI file             *)
(***************************************************************************)
\* ani.py 572-593: material_polygon_counts of a mesh, (n - 2) * 3 indices for
\* a polygon of n corners, as its (mat_idx, indices) items in sorted key order
MaterialPolygonCounts(o) ==
    LET keys == {MatIdx(o, o.polygons[i]) : i \in 1..Len(o.polygons)}
        sorted_mat_indices ==
            [k \in 1..Cardinality(keys) |->
                CHOOSE x \in keys : Cardinality({y \in keys : y < x}) = k - 1]
        corners == {Len(o.polygons[i].loops) : i \in 1..Len(o.polygons)}
        most == CHOOSE n \in corners : \A c \in corners : c <= n
        Count(m, n) == Cardinality({i \in 1..Len(o.polygons) :
                                       /\ MatIdx(o, o.polygons[i]) = m
                                       /\ Len(o.polygons[i].loops) = n})
    IN [k \in 1..Len(sorted_mat_indices) |->
           << sorted_mat_indices[k],
              SumSeq([n \in 1..most |-> (n - 2) * 3 * Count(sorted_mat_indices[k], n)]) >>]

\* the target names the ANI export emits for the object the MSH export ran on
AniNames ==
    AniObjectNames([name |-> obj.name, type |-> obj.type,
                    material_polygon_counts |-> MaterialPolygonCounts(obj)], 1)

\* the sub-object names the MSH export has emitted for it
MshNames == [k \in 1..Len(exported) |-> exported[k].name]

\* C26: for any mesh object the set of target names the ANI export emits
\* equals the set of sub-object names the MSH export emits, with the same
\* number of names, so that every sub-object written to the MSH file has
\* exactly one animation target of the same name.
C26_SameNamesInBothFiles ==
    (op = "export" /\ pc = "collected") =>
        /\ Range(AniNames) = Range(MshNames)
        /\ Len(AniNames) = Len(MshNames)
        /\ \A k \in 1..Len(MshNames) :
              Cardinality({n \in 1..Len(AniNames) : AniNames[n] = MshNames[k]}) = 1

\* the names of both files are the same set and as many
SameSetAndNumber ==
    (op = "export" /\ pc = "collected") =>
        /\ Range(AniNames) = Range(MshNames)
        /\ Len(AniNames) = Len(MshNames)

\* C27: the sub-object names the MSH export emits from one source object,
\* over all its material groups and all split chunks, are pairwise distinct,
\* and so are the ANI target names emitted for that object.
C27_NamesPairwiseDistinct ==
    (op = "export" /\ pc = "collected") =>
        /\ \A j, k \in 1..Len(MshNames) : j # k => MshNames[j] # MshNames[k]
        /\ \A j, k \in 1..Len(AniNames) : j # k => AniNames[j] # AniNames[k]

(***************************************************************************)
(* Claims about what the ANI export writes and leaves                      *)
(***************************************************************************)
\* <<d, n>>: target n of file d the ANI export wrote for an action whose last
\* frame is a whole number
WholeFrameTargets ==
    IF op \in {"ani", "ani_again"}
       THEN UNION { {<<d, n>> : n \in 1..Len(disk[d].targets)} :
                      d \in {f \in 1..Len(disk) :
                                actions[disk[f].action].frame_range[2].part = 0} }
       ELSE {}

\* C25: in the ANI export of a clip whose last frame F is a non-negative
\* whole number, for every target and each of the rotation, position and
\* scale tracks the uint16 count written before the track is the number of
\* (value, tick) pairs written after it, both F + 1, for object targets and
\* bone targets alike; the unknown track is written with count 0 and no pairs.
C25_CountsMatchPairs ==
    \A dn \in WholeFrameTargets :
        LET t == disk[dn[1]].targets[dn[2]]
            F == actions[disk[dn[1]].action].frame_range[2].whole
        IN /\ t.rotation_count = Len(t.rotation) /\ Len(t.rotation) = F + 1
           /\ t.position_count = Len(t.position) /\ Len(t.position) = F + 1
           /\ t.scale_count = Len(t.scale) /\ Len(t.scale) = F + 1
           /\ t.unknown_count = 0 /\ t.unknown = <<>>

\* a file with an object target and a bone target of a clip of more than one frame
C25_Witness ==
    \E dn \in WholeFrameTargets : \E dm \in WholeFrameTargets :
        /\ dn[1] = dm[1]
        /\ actions[disk[dn[1]].action].frame_range[2].whole >= 1
        /\ disk[dn[1]].targets[dn[2]].name = <<"Bip01">>
        /\ Len(disk[dn[1]].targets[dn[2]].rotation) >= 2
        /\ disk[dm[1]].targets[dm[2]].name = <<"Dummy">>
        /\ Len(disk[dm[1]].targets[dm[2]].position) >= 2

\* the objects linked to the action of the last call of export_action, once
\* the call has returned normally
ObjectsOfReturnedCall ==
    IF op = "ani" /\ pc \in {"exporting", "exported"} /\ before_export.action # 0
       THEN {k \in 1..Len(ani_scene.objects) :
                ani_scene.objects[k].name \in Range(actions[before_export.action].slots)}
       ELSE {}

\* C30: after export_action has returned normally every object of
\* action_objects has the action assigned that it had before the call, also
\* an object that had no animation data before the call, and the current
\* frame of the scene is the frame before the call.
C30_ExportRestoresScene ==
    /\ \A k \in ObjectsOfReturnedCall :
          ani_scene.animation_data[k] = before_export.animation_data[k]
    /\ ObjectsOfReturnedCall # {} =>
          ani_scene.frame_current = before_export.frame_current

\* what the call does give back: the frame, and the action of every object
\* that had animation data
RestoredWhereKept ==
    /\ \A k \in ObjectsOfReturnedCall :
          before_export.animation_data[k].present =>
              ani_scene.animation_data[k] = before_export.animation_data[k]
    /\ ObjectsOfReturnedCall # {} =>
          ani_scene.frame_current = before_export.frame_current

====
